---- MODULE Spec2Model ----
(***************************************************************************)
(* Clinic attendance: the rotating QR token (attendance/qr.py), the punch  *)
(* handler api_clock and its session state machine (attendance/views.py)   *)
(* over the AttendanceSession / AttendanceEvent tables                     *)
(* (attendance/models.py), the manager dashboard (manager_dashboard) and   *)
(* the weekly roster (roster_week, approve_roster_week) over the           *)
(* ShiftAssignment, ShiftTemplate and LeaveRequest tables.                 *)
(*                                                                         *)
(* Time is counted in ticks of 1/TicksPerSecond second, so that the        *)
(* float arithmetic of time.time() (sub-second instants, int() truncation) *)
(* is kept.  The view runs without transaction.atomic and without          *)
(* select_for_update; with Django's autocommit every ORM call is its own   *)
(* transaction, so a handler is a sequence of steps, one per ORM write,    *)
(* and the steps of concurrent requests interleave.                        *)
(***************************************************************************)
EXTENDS Integers, Sequences, FiniteSets, TLC

VARIABLES
    now,        \* the server clock, in ticks
    sessions,   \* AttendanceSession rows; a row's id is its index
    events,     \* AttendanceEvent rows, in insertion order
    pc,         \* per worker: where its request stands in api_clock
    req,        \* per worker: the POST data of the request it handles
    loc,        \* per worker: api_clock's locals (now, open_session, session)
    resp,       \* per worker: the response built, until it is returned
    served,     \* requests received so far
    okCount,    \* responses {"ok": true} returned so far
    prev,       \* per active employee: the last answer given to a punch past the input checks
    tok,        \* the token last issued by api_qr
    issuedAt,   \* the instant (ticks) at which tok was issued
    shifts,     \* ShiftAssignment rows
    leaves,     \* LeaveRequest rows
    templates,  \* ShiftTemplate rows, by id
    dash,       \* the context built by the last run of manager_dashboard
    op          \* the last roster request handled

vars == <<now, sessions, events, pc, req, loc, resp, served, okCount, prev, tok, issuedAt,
         shifts, leaves, templates, dash, op>>

punchVars == <<sessions, events, pc, req, loc, resp, served, okCount, prev>>
tokenVars == <<tok, issuedAt>>
rosterVars == <<shifts, leaves, templates, dash, op>>

-----------------------------------------------------------------------------
(* Bounds of the model *)

\* requests received in one behaviour of the concurrent specification
MaxPunches == 3
\* requests received in one behaviour of the serial specification
MaxSerialPunches == 4
\* last second of the clock in the token specification
MaxSeconds == 195

\* resolution of the clock: ticks in one second
TicksPerSecond == 2
\* sessions in a session table of the dashboard specification
MaxDashSessions == 2
\* rows in a shift table of the dashboard specification
MaxDashShifts == 3
\* requests received in one behaviour of the roster specification
MaxRosterOps == 3

(* Program constants *)

WindowSeconds == 60
MaxAgeSeconds == 70
MAX_UPLOAD == 10 * 1024 * 1024
NULL == -1

-----------------------------------------------------------------------------
(* attendance/qr.py *)

Sec(t) == t \div TicksPerSecond

\* make_qr_token with the slip of stamping the token with the start of its
\* window instead of the instant of issue
make_qr_token_WindowStamp(t) ==
    [sig |-> TRUE, window |-> Sec(t) \div WindowSeconds,
     ts |-> (Sec(t) \div WindowSeconds) * WindowSeconds]

\* make_qr_token at instant t: the payload names the window, and
\* TimestampSigner.sign appends int(time.time()) and the HMAC
make_qr_token(t) ==
    [sig |-> TRUE, window |-> Sec(t) \div WindowSeconds, ts |-> Sec(t)]

\* a token whose signature does not verify
ForgedToken == [sig |-> FALSE, window |-> 0, ts |-> 0]

\* validate_qr_token at instant t: unsign raises BadSignature, or
\* SignatureExpired when age = time.time() - timestamp > max_age
validate_qr_token(token, max_age_seconds, t) ==
    /\ token.sig
    /\ ~ (t - token.ts * TicksPerSecond > max_age_seconds * TicksPerSecond)

\* window_meta(...)["expires_in"] at instant t: max(0, int(end - now))
window_expires_in(window_seconds, t) ==
    LET end == ((Sec(t) \div window_seconds) + 1) * window_seconds * TicksPerSecond
        left == (end - t) \div TicksPerSecond
    IN  IF left > 0 THEN left ELSE 0

token_expires_in(token, window_seconds, max_age_seconds, t) ==
    IF ~ validate_qr_token(token, max_age_seconds, t)
    THEN 0
    ELSE window_expires_in(window_seconds, t)

-----------------------------------------------------------------------------
(* attendance/models.py: the Employee table (fixed: 1 and 2 active,        *)
(* 3 inactive, 4 is the id of no row)                                      *)

EmployeeIds == {1, 2, 3}
MissingId == Cardinality(EmployeeIds) + 1
ActiveIds == {1, 2}

PinOf(e) == CASE e = 1 -> "111111" [] e = 2 -> "222222" [] OTHER -> "333333"

\* Employee.objects.get(id=i, is_active=True) finds a row
EmployeeFound(i) == i \in EmployeeIds /\ i \in ActiveIds

\* Employee.check_pin
check_pin(e, raw_pin) == raw_pin = PinOf(e)

-----------------------------------------------------------------------------
(* The session table *)

SessionIds == 1 .. Len(sessions)

\* AttendanceSession.objects.filter(employee=e, is_open=True).order_by("-id").first()
\* (0 stands for None)
OpenSessionOf(e) ==
    LET open == {i \in SessionIds : sessions[i].employee = e /\ sessions[i].is_open}
    IN  IF open = {} THEN 0 ELSE CHOOSE i \in open : \A j \in open : j <= i

\* open_session and open_session.clock_in_time and not open_session.clock_out_time
ClockedIn(s) ==
    /\ s # 0
    /\ sessions[s].clock_in_time # NULL
    /\ sessions[s].clock_out_time = NULL

OpenCount(e) ==
    Cardinality({i \in SessionIds : sessions[i].employee = e /\ sessions[i].is_open})

-----------------------------------------------------------------------------
(* Requests *)

Workers == {1, 2}

\* the instants at which the punch specifications observe the clock:
\* 0 s, the last half second of window 0, and an instant of window 1 at
\* which a token of instant 0 is older than max_age
Instants ==
    { 0,
      WindowSeconds * TicksPerSecond - 1,
      (MaxAgeSeconds + 2) * TicksPerSecond }

PhotoSize(p) ==
    CASE p = "small" -> 1
      [] p = "at_limit" -> MAX_UPLOAD
      [] OTHER -> MAX_UPLOAD + 1

NoRequest ==
    [action |-> "", qr_token |-> ForgedToken, photo |-> "absent",
     subject_employee_id |-> 0, subject_pin |-> "", is_proxy |-> FALSE,
     witness_employee_id |-> 0, witness_pin |-> ""]

NoLocals == [now |-> 0, open_session |-> 0, session |-> 0]
NoResponse == [kind |-> "none", photo_processed |-> FALSE]
NoPrev == [action |-> "", kind |-> "none"]

\* the witness part of a request (is_proxy, witness id, witness PIN): no
\* proxy, or a proxy with the id or the PIN not supplied (0, ""), with the
\* other active employee and their PIN or a wrong one, with the subject as
\* witness and the right PIN or a wrong one, with an inactive or an unknown witness
WitnessParts ==
    { <<FALSE, 0, "">>,
      <<TRUE, 0, "222222">>, <<TRUE, 2, "">>,
      <<TRUE, 2, "222222">>, <<TRUE, 2, "111111">>,
      <<TRUE, 1, "111111">>, <<TRUE, 1, "222222">>,
      <<TRUE, 3, "333333">>, <<TRUE, MissingId, "222222">> }

\* the POST data the serial specification draws from: every combination of
\* an action, a token (forged, or issued at instant 0 and now of any age),
\* a photo, a subject (active, inactive, unknown), a PIN and a witness part
AllRequests ==
    { [action |-> a, qr_token |-> q, photo |-> p,
       subject_employee_id |-> s, subject_pin |-> sp, is_proxy |-> wp[1],
       witness_employee_id |-> wp[2], witness_pin |-> wp[3]] :
        a \in {"IN", "OUT", "BREAK"},
        q \in {ForgedToken, make_qr_token(0)},
        p \in {"absent", "small", "over_limit"},
        s \in {1, 3, MissingId},
        sp \in {"111111", "222222"},
        wp \in WitnessParts }

\* the POST data the concurrent specification draws from: punches of the
\* two active employees with their PIN, a photo and a token just issued,
\* alone or, for employee 1, witnessed by employee 2
CoreRequests(t) ==
    { [action |-> a, qr_token |-> make_qr_token(t), photo |-> "small",
       subject_employee_id |-> sw[1], subject_pin |-> PinOf(sw[1]),
       is_proxy |-> sw[2] # 0,
       witness_employee_id |-> sw[2],
       witness_pin |-> IF sw[2] # 0 THEN PinOf(sw[2]) ELSE ""] :
        a \in {"IN", "OUT"}, sw \in {<<1, 0>>, <<2, 0>>, <<1, 2>>} }

-----------------------------------------------------------------------------
(* api_clock, lines 146-181: the input checks, in the order of the code.   *)
(* The result is the error of the first return reached, or "pass".         *)

\* InputChecks with the slip of comparing witness and subject before the
\* witness PIN is checked
InputChecks_SelfFirst(r, t) ==
    IF r.action \notin {"IN", "OUT"} THEN "InvalidAction"
    ELSE IF token_expires_in(r.qr_token, WindowSeconds, MaxAgeSeconds, t) <= 0
    THEN "TokenExpired"
    ELSE IF r.photo = "absent" THEN "PhotoMissing"
    ELSE IF PhotoSize(r.photo) > MAX_UPLOAD THEN "PhotoTooLarge"
    ELSE IF ~ EmployeeFound(r.subject_employee_id) THEN "EmployeeNotFound"
    ELSE IF ~ check_pin(r.subject_employee_id, r.subject_pin) THEN "WrongSecret"
    ELSE IF ~ r.is_proxy THEN "pass"
    ELSE IF r.witness_employee_id = 0 \/ r.witness_pin = "" THEN "WitnessRequired"
    ELSE IF ~ EmployeeFound(r.witness_employee_id) THEN "WitnessNotFound"
    ELSE IF r.witness_employee_id = r.subject_employee_id THEN "WitnessIsSubject"
    ELSE IF ~ check_pin(r.witness_employee_id, r.witness_pin) THEN "WrongWitnessSecret"
    ELSE "pass"

\* InputChecks with the slip of leaving out the comparison of witness and subject
InputChecks_NoSelfCheck(r, t) ==
    IF r.action \notin {"IN", "OUT"} THEN "InvalidAction"
    ELSE IF token_expires_in(r.qr_token, WindowSeconds, MaxAgeSeconds, t) <= 0
    THEN "TokenExpired"
    ELSE IF r.photo = "absent" THEN "PhotoMissing"
    ELSE IF PhotoSize(r.photo) > MAX_UPLOAD THEN "PhotoTooLarge"
    ELSE IF ~ EmployeeFound(r.subject_employee_id) THEN "EmployeeNotFound"
    ELSE IF ~ check_pin(r.subject_employee_id, r.subject_pin) THEN "WrongSecret"
    ELSE IF ~ r.is_proxy THEN "pass"
    ELSE IF r.witness_employee_id = 0 \/ r.witness_pin = "" THEN "WitnessRequired"
    ELSE IF ~ EmployeeFound(r.witness_employee_id) THEN "WitnessNotFound"
    ELSE IF ~ check_pin(r.witness_employee_id, r.witness_pin) THEN "WrongWitnessSecret"
    ELSE "pass"

InputChecks(r, t) ==
    IF r.action \notin {"IN", "OUT"} THEN "InvalidAction"
    ELSE IF token_expires_in(r.qr_token, WindowSeconds, MaxAgeSeconds, t) <= 0
    THEN "TokenExpired"
    ELSE IF r.photo = "absent" THEN "PhotoMissing"
    ELSE IF PhotoSize(r.photo) > MAX_UPLOAD THEN "PhotoTooLarge"
    ELSE IF ~ EmployeeFound(r.subject_employee_id) THEN "EmployeeNotFound"
    ELSE IF ~ check_pin(r.subject_employee_id, r.subject_pin) THEN "WrongSecret"
    ELSE IF ~ r.is_proxy THEN "pass"
    ELSE IF r.witness_employee_id = 0 \/ r.witness_pin = "" THEN "WitnessRequired"
    ELSE IF ~ EmployeeFound(r.witness_employee_id) THEN "WitnessNotFound"
    ELSE IF ~ check_pin(r.witness_employee_id, r.witness_pin) THEN "WrongWitnessSecret"
    ELSE IF r.witness_employee_id = r.subject_employee_id THEN "WitnessIsSubject"
    ELSE "pass"

\* lines 188-193 and 215-217: the session state rule, on the row read at line 189
StateRule(r, open_session) ==
    IF r.action = "IN"
    THEN IF ClockedIn(open_session) THEN "AlreadyClockedIn" ELSE "pass"
    ELSE IF ~ ClockedIn(open_session) THEN "NoOpenSession" ELSE "pass"

\* the witness stored with the event (None is 0)
WitnessOf(r) == IF r.is_proxy THEN r.witness_employee_id ELSE 0

-----------------------------------------------------------------------------
(* The steps of api_clock *)

\* a request reaches a worker: lines 134-144
Arrive(w, r, limit) ==
    /\ pc[w] = "idle"
    /\ served < limit
    /\ pc' = [pc EXCEPT ![w] = "recv"]
    /\ req' = [req EXCEPT ![w] = r]
    /\ served' = served + 1
    /\ UNCHANGED <<now, sessions, events, loc, resp, okCount, prev, tokenVars, rosterVars>>

\* Reject with the slip of creating the session of an IN before the state
\* rule is looked at: the row is there when AlreadyClockedIn is answered
Reject_AfterCreate(w, kind, photo_processed) ==
    /\ pc' = [pc EXCEPT ![w] = "done"]
    /\ resp' = [resp EXCEPT ![w] = [kind |-> kind, photo_processed |-> photo_processed]]
    /\ sessions' = IF kind = "AlreadyClockedIn"
                   THEN Append(sessions,
                          [employee |-> req[w].subject_employee_id,
                           clock_in_time |-> now,
                           clock_out_time |-> NULL,
                           is_open |-> TRUE])
                   ELSE sessions
    /\ UNCHANGED <<loc, events>>

\* return JsonResponse({"ok": False, "error": ...}, status=...): the handler
\* ends, having written nothing
Reject(w, kind, photo_processed) ==
    /\ pc' = [pc EXCEPT ![w] = "done"]
    /\ resp' = [resp EXCEPT ![w] = [kind |-> kind, photo_processed |-> photo_processed]]
    /\ UNCHANGED <<loc, sessions, events>>

\* lines 146-193 and 215-217: the input checks, the recompression of the
\* photo (line 184), now (line 188), the read of the open session (line 189)
\* and the state rule
Receive(w) ==
    /\ pc[w] = "recv"
    /\ LET r == req[w]
           c == InputChecks(r, now)
           open_session == OpenSessionOf(r.subject_employee_id)
           st == StateRule(r, open_session)
       IN  IF c # "pass" THEN Reject(w, c, FALSE)
           ELSE IF st # "pass" THEN Reject(w, st, TRUE)
           ELSE /\ pc' = [pc EXCEPT ![w] = IF r.action = "IN" THEN "in_session" ELSE "out_save"]
                /\ resp' = [resp EXCEPT ![w] = [kind |-> "none", photo_processed |-> TRUE]]
                /\ loc' = [loc EXCEPT ![w] =
                              [now |-> now, open_session |-> open_session, session |-> 0]]
                /\ UNCHANGED <<sessions, events>>
    /\ UNCHANGED <<now, req, served, okCount, prev, tokenVars, rosterVars>>

\* lines 195-199: AttendanceSession.objects.create
CreateSession(w) ==
    /\ pc[w] = "in_session"
    /\ sessions' = Append(sessions,
                     [employee |-> req[w].subject_employee_id,
                      clock_in_time |-> loc[w].now,
                      clock_out_time |-> NULL,
                      is_open |-> TRUE])
    /\ loc' = [loc EXCEPT ![w].session = Len(sessions) + 1]
    /\ pc' = [pc EXCEPT ![w] = "in_event"]
    /\ UNCHANGED <<now, events, req, resp, served, okCount, prev, tokenVars, rosterVars>>

\* SaveOut with the slip of update_fields=["clock_out_time"]: is_open stays true
SaveOut_KeepsOpen(w) ==
    /\ pc[w] = "out_save"
    /\ sessions' = [sessions EXCEPT ![loc[w].open_session] =
                      [@ EXCEPT !.clock_out_time = loc[w].now]]
    /\ loc' = [loc EXCEPT ![w].session = loc[w].open_session]
    /\ pc' = [pc EXCEPT ![w] = "out_event"]
    /\ UNCHANGED <<now, events, req, resp, served, okCount, prev, tokenVars, rosterVars>>

\* lines 219-221: open_session.save(update_fields=["clock_out_time", "is_open"])
SaveOut(w) ==
    /\ pc[w] = "out_save"
    /\ sessions' = [sessions EXCEPT ![loc[w].open_session] =
                      [@ EXCEPT !.clock_out_time = loc[w].now, !.is_open = FALSE]]
    /\ loc' = [loc EXCEPT ![w].session = loc[w].open_session]
    /\ pc' = [pc EXCEPT ![w] = "out_event"]
    /\ UNCHANGED <<now, events, req, resp, served, okCount, prev, tokenVars, rosterVars>>

\* CreateEvent with the slip of session=open_session in both branches
CreateEvent_OpenSession(w) ==
    /\ pc[w] \in {"in_event", "out_event"}
    /\ events' = Append(events,
                   [event_type |-> req[w].action,
                    session |-> loc[w].open_session,
                    subject_employee |-> req[w].subject_employee_id,
                    witness_employee |-> WitnessOf(req[w]),
                    is_proxy |-> req[w].is_proxy])
    /\ pc' = [pc EXCEPT ![w] = "done"]
    /\ resp' = [resp EXCEPT ![w].kind = "ok"]
    /\ UNCHANGED <<now, sessions, req, loc, served, okCount, prev, tokenVars, rosterVars>>

\* lines 201-213 and 223-235: AttendanceEvent.objects.create and the ok response
CreateEvent(w) ==
    /\ pc[w] \in {"in_event", "out_event"}
    /\ events' = Append(events,
                   [event_type |-> req[w].action,
                    session |-> loc[w].session,
                    subject_employee |-> req[w].subject_employee_id,
                    witness_employee |-> WitnessOf(req[w]),
                    is_proxy |-> req[w].is_proxy])
    /\ pc' = [pc EXCEPT ![w] = "done"]
    /\ resp' = [resp EXCEPT ![w].kind = "ok"]
    /\ UNCHANGED <<now, sessions, req, loc, served, okCount, prev, tokenVars, rosterVars>>

\* AttendanceEvent.objects.create raises (the photo cannot be stored, the
\* database refuses the row) or the worker stops: nothing surrounds the two
\* writes, so the request ends with a server error after the first
EventFails(w) ==
    /\ pc[w] \in {"in_event", "out_event"}
    /\ pc' = [pc EXCEPT ![w] = "done"]
    /\ resp' = [resp EXCEPT ![w].kind = "ServerError"]
    /\ UNCHANGED <<now, sessions, events, req, loc, served, okCount, prev, tokenVars, rosterVars>>

\* the kinds of answer given once the input checks are passed
PastChecks == {"ok", "AlreadyClockedIn", "NoOpenSession", "ServerError"}

\* the response is returned to the client
Reply(w) ==
    /\ pc[w] = "done"
    /\ okCount' = IF resp[w].kind = "ok" THEN okCount + 1 ELSE okCount
    /\ prev' = IF resp[w].kind \in PastChecks
               THEN [prev EXCEPT ![req[w].subject_employee_id] =
                        [action |-> req[w].action, kind |-> resp[w].kind]]
               ELSE prev
    /\ pc' = [pc EXCEPT ![w] = "idle"]
    /\ req' = [req EXCEPT ![w] = NoRequest]
    /\ loc' = [loc EXCEPT ![w] = NoLocals]
    /\ resp' = [resp EXCEPT ![w] = NoResponse]
    /\ UNCHANGED <<now, sessions, events, served, tokenVars, rosterVars>>

\* the clock reaches the next observed instant
Tick ==
    /\ \E t \in Instants :
          /\ t > now
          /\ \A u \in Instants : u > now => t <= u
          /\ now' = t
    /\ UNCHANGED <<punchVars, tokenVars, rosterVars>>

-----------------------------------------------------------------------------
(* The token endpoints *)

\* api_qr: a token is issued at the current instant
Issue ==
    /\ tok' = make_qr_token(now)
    /\ issuedAt' = now
    /\ UNCHANGED <<now, punchVars, rosterVars>>

\* the clock advances by one tick
TokTick ==
    /\ now < MaxSeconds * TicksPerSecond
    /\ now' = now + 1
    /\ UNCHANGED <<punchVars, tokenVars, rosterVars>>

-----------------------------------------------------------------------------
(* Dates and times of day.  A date is a day number and a datetime an       *)
(* instant in ticks; the server's time zone is fixed, so that              *)
(* timezone.localdate, timezone.localtime(...).date() and                  *)
(* timezone.now().date() agree.  Day 0 is a Monday and the first day of a  *)
(* month of DaysInMonth days (February 2027).                              *)

GRACE_MINUTES == 15
NO_SHOW_MINUTES == 120
EARLY_WINDOW_MINUTES == 60

DaysInWeek == 7
DaysInMonth == 28

MinuteTicks == 60 * TicksPerSecond
DayTicks == 24 * 60 * MinuteTicks

\* datetime.time(h, m): a time of day, in ticks after midnight
Clock(h, m) == (h * 60 + m) * MinuteTicks

\* timezone.make_aware(datetime.combine(d, t))
dt_combine(d, t) == d * DayTicks + t

\* timezone.localdate() at instant t, and the date of a datetime
localdate(t) == t \div DayTicks

\* settings.TIME_ZONE, as the hours the facility's clock is ahead of UTC. The
\* settings module is not among the sources; the specification knows a
\* single facility-local clock, which is the clock of the instants here.
TIME_ZONE == 0

\* now_dt.date() of line 467: the date of the aware datetime timezone.now()
\* returns, which is in UTC
utcdate(t) == (t - TIME_ZONE * 60 * MinuteTicks) \div DayTicks

\* today - timedelta(days=today.weekday())
WeekStart(d) == d - (d % DaysInWeek)

\* today.replace(day=1), and the first day of the next month
MonthStart(d) == d - (d % DaysInMonth)
NextMonth(d) == MonthStart(d) + DaysInMonth

-----------------------------------------------------------------------------
(* Divisions, users, templates (attendance/models.py)                      *)

Divisions == {1, 2}

\* EmployeeProfile: employee 1 is rostered in division 1, employee 2 in 2
DivisionOf(e) == IF e = 1 THEN 1 ELSE 2

\* the users: a manager (is_staff) and a roster editor of division 1
\* (DivisionRosterEditor) who is not staff
Users == {"manager", "editor"}
is_staff(u) == u = "manager"

\* editable_divisions_for
editable_divisions_for(u) == IF is_staff(u) THEN Divisions ELSE {1}

NoUser == "none"

\* the ShiftTemplate rows after setup: Morning and Afternoon of division 1,
\* Morning of division 2
TemplateIds == {1, 2, 3}

InitTemplates ==
    [t \in TemplateIds |->
        CASE t = 1 -> [division |-> 1, start_time |-> Clock(9, 0), end_time |-> Clock(17, 0),
                       is_active |-> TRUE]
          [] t = 2 -> [division |-> 1, start_time |-> Clock(13, 0), end_time |-> Clock(21, 0),
                       is_active |-> TRUE]
          [] OTHER -> [division |-> 2, start_time |-> Clock(9, 0), end_time |-> Clock(17, 0),
                       is_active |-> TRUE]]

\* no roster request yet; sel is the selection posted, again whether the
\* request repeats the request handled just before it
NoOp ==
    [name |-> "none", user |-> NoUser, division |-> 0, week_start |-> 0,
     sel |-> << >>, again |-> FALSE]

NoDash == [ran |-> FALSE]

-----------------------------------------------------------------------------
(* manager_dashboard: the session lists it builds                          *)

\* the key of the sorts by clock-in: x.clock_in_time or start
SortKey(i, dflt) ==
    IF sessions[i].clock_in_time = NULL THEN dflt ELSE sessions[i].clock_in_time

\* the rows of a queryset, as the list of their ids in the order of
\* clock_in_time (and of id between equal clock-ins)
RECURSIVE OrderBy(_, _)
OrderBy(S, dflt) ==
    IF S = {} THEN << >>
    ELSE LET m == CHOOSE i \in S :
                     \A j \in S : \/ SortKey(i, dflt) < SortKey(j, dflt)
                                  \/ SortKey(i, dflt) = SortKey(j, dflt) /\ i <= j
         IN  << m >> \o OrderBy(S \ {m}, dflt)

\* sorted(ids, key=lambda x: x.clock_in_time or start), a stable sort
RECURSIVE SortByClockIn(_, _)
SortByClockIn(ids, dflt) ==
    IF ids = << >> THEN << >>
    ELSE LET m == CHOOSE k \in 1 .. Len(ids) :
                     \A j \in 1 .. Len(ids) :
                         \/ SortKey(ids[k], dflt) < SortKey(ids[j], dflt)
                         \/ SortKey(ids[k], dflt) = SortKey(ids[j], dflt) /\ k <= j
         IN  << ids[m] >> \o
             SortByClockIn(SubSeq(ids, 1, m - 1) \o SubSeq(ids, m + 1, Len(ids)), dflt)

\* lines 310-330: sessions_by_emp.get(e, []) of the daily pass: the sessions
\* of e clocked in within [start, end), then the open sessions of e, sorted
sessions_by_emp(e, start, end) ==
    LET sessions_today == {i \in SessionIds :
                              /\ sessions[i].employee = e
                              /\ sessions[i].clock_in_time # NULL
                              /\ sessions[i].clock_in_time >= start
                              /\ sessions[i].clock_in_time < end}
        open_sessions == {i \in SessionIds : sessions[i].employee = e /\ sessions[i].is_open}
    IN  SortByClockIn(OrderBy(sessions_today, start) \o OrderBy(open_sessions, start), start)

\* month_sessions_by_emp_date with the open sessions keyed by the date of
\* their clock-in only, not by every date up to today
month_sessions_by_emp_date_InDateOnly(e, d, month_start, month_end, t) ==
    LET month_start_dt == dt_combine(month_start, 0)
        month_end_dt == dt_combine(month_end, 0)
        month_sessions == {i \in SessionIds :
                              /\ sessions[i].employee = e
                              /\ sessions[i].clock_in_time # NULL
                              /\ sessions[i].clock_in_time >= month_start_dt
                              /\ sessions[i].clock_in_time < month_end_dt
                              /\ localdate(sessions[i].clock_in_time) = d}
    IN  SortByClockIn(OrderBy(month_sessions, month_start_dt), month_start_dt)

\* lines 438-480: month_sessions_by_emp_date.get((e, d), []) of the monthly
\* pass: the sessions of e clocked in on date d within the month, then the
\* open sessions clocked in before the end of the month, for every date from
\* their clock-in (or the start of the month) to today (or the end of the month)
month_sessions_by_emp_date(e, d, month_start, month_end, t) ==
    LET month_start_dt == dt_combine(month_start, 0)
        month_end_dt == dt_combine(month_end, 0)
        month_sessions == {i \in SessionIds :
                              /\ sessions[i].employee = e
                              /\ sessions[i].clock_in_time # NULL
                              /\ sessions[i].clock_in_time >= month_start_dt
                              /\ sessions[i].clock_in_time < month_end_dt
                              /\ localdate(sessions[i].clock_in_time) = d}
        open_sessions_month ==
            {i \in SessionIds :
                /\ sessions[i].employee = e
                /\ sessions[i].is_open
                /\ sessions[i].clock_in_time # NULL
                /\ sessions[i].clock_in_time < month_end_dt
                /\ LET in_date == localdate(sessions[i].clock_in_time)
                       cur == IF in_date > month_start THEN in_date ELSE month_start
                       last == IF utcdate(t) < month_end - 1
                               THEN utcdate(t) ELSE month_end - 1
                   IN  cur <= d /\ d <= last}
    IN  SortByClockIn(OrderBy(month_sessions, month_start_dt)
                         \o OrderBy(open_sessions_month, month_start_dt),
                      month_start_dt)

-----------------------------------------------------------------------------
(* manager_dashboard: the classification of one shift                      *)

\* lines 701-706
session_overlaps_shift(sess, shift_start_dt, shift_end_dt, t) ==
    IF sess.clock_in_time = NULL THEN FALSE
    ELSE LET in_time == sess.clock_in_time
             out_time == IF sess.clock_out_time # NULL THEN sess.clock_out_time ELSE t
         IN  in_time <= shift_end_dt /\ out_time >= shift_start_dt

\* matched_in with the slip of a window open at both ends
matched_in_OpenWindow(emp_sessions, window_start, window_end) ==
    LET hits == {k \in 1 .. Len(emp_sessions) :
                    /\ sessions[emp_sessions[k]].clock_in_time # NULL
                    /\ window_start < sessions[emp_sessions[k]].clock_in_time
                    /\ sessions[emp_sessions[k]].clock_in_time < window_end}
    IN  IF hits = {} THEN NULL
        ELSE sessions[emp_sessions[CHOOSE k \in hits : \A j \in hits : k <= j]].clock_in_time

\* matched_in without the break of line 350: the last session of the list
\* whose clock-in lies in the window
matched_in_Last(emp_sessions, window_start, window_end) ==
    LET hits == {k \in 1 .. Len(emp_sessions) :
                    /\ sessions[emp_sessions[k]].clock_in_time # NULL
                    /\ window_start <= sessions[emp_sessions[k]].clock_in_time
                    /\ sessions[emp_sessions[k]].clock_in_time <= window_end}
    IN  IF hits = {} THEN NULL
        ELSE sessions[emp_sessions[CHOOSE k \in hits : \A j \in hits : j <= k]].clock_in_time

\* lines 346-351: the clock-in of the first session of the list whose
\* clock-in lies in the window (None is NULL)
matched_in(emp_sessions, window_start, window_end) ==
    LET hits == {k \in 1 .. Len(emp_sessions) :
                    /\ sessions[emp_sessions[k]].clock_in_time # NULL
                    /\ window_start <= sessions[emp_sessions[k]].clock_in_time
                    /\ sessions[emp_sessions[k]].clock_in_time <= window_end}
    IN  IF hits = {} THEN NULL
        ELSE sessions[emp_sessions[CHOOSE k \in hits : \A j \in hits : k <= j]].clock_in_time

\* line 354
covered(emp_sessions, shift_start_dt, shift_end_dt, t) ==
    \E k \in 1 .. Len(emp_sessions) :
        session_overlaps_shift(sessions[emp_sessions[k]], shift_start_dt, shift_end_dt, t)

\* Classify with the slip of comparing minutes_late < GRACE_MINUTES
Classify_GraceExclusive(sh, emp_sessions, t) ==
    LET shift_start_dt == dt_combine(sh.date, sh.start_time)
        shift_end_dt == dt_combine(sh.date, sh.end_time)
        window_start == shift_start_dt - EARLY_WINDOW_MINUTES * MinuteTicks
        window_end == shift_start_dt + NO_SHOW_MINUTES * MinuteTicks
        m == matched_in(emp_sessions, window_start, window_end)
        diff_min == (m - shift_start_dt) \div MinuteTicks
        minutes_late == IF diff_min > 0 THEN diff_min ELSE 0
    IN  IF ~ covered(emp_sessions, shift_start_dt, shift_end_dt, t)
        THEN [status |-> "NO_SHOW", minutes_late |-> NULL, in_time |-> m]
        ELSE IF m = NULL
        THEN [status |-> "COVERED", minutes_late |-> NULL, in_time |-> m]
        ELSE IF minutes_late < GRACE_MINUTES
        THEN [status |-> "ON_TIME", minutes_late |-> minutes_late, in_time |-> m]
        ELSE [status |-> "LATE", minutes_late |-> minutes_late, in_time |-> m]

\* Classify with the slip of looking at the match before the coverage: a
\* matched clock-in classifies the shift whether or not a session overlaps it
Classify_MatchFirst(sh, emp_sessions, t) ==
    LET shift_start_dt == dt_combine(sh.date, sh.start_time)
        shift_end_dt == dt_combine(sh.date, sh.end_time)
        window_start == shift_start_dt - EARLY_WINDOW_MINUTES * MinuteTicks
        window_end == shift_start_dt + NO_SHOW_MINUTES * MinuteTicks
        m == matched_in(emp_sessions, window_start, window_end)
        diff_min == (m - shift_start_dt) \div MinuteTicks
        minutes_late == IF diff_min > 0 THEN diff_min ELSE 0
    IN  IF m # NULL /\ minutes_late <= GRACE_MINUTES
        THEN [status |-> "ON_TIME", minutes_late |-> minutes_late, in_time |-> m]
        ELSE IF m # NULL
        THEN [status |-> "LATE", minutes_late |-> minutes_late, in_time |-> m]
        ELSE IF ~ covered(emp_sessions, shift_start_dt, shift_end_dt, t)
        THEN [status |-> "NO_SHOW", minutes_late |-> NULL, in_time |-> m]
        ELSE [status |-> "COVERED", minutes_late |-> NULL, in_time |-> m]

\* Classify with the slip of leaving out the clamp max(0, diff_min)
Classify_NoClamp(sh, emp_sessions, t) ==
    LET shift_start_dt == dt_combine(sh.date, sh.start_time)
        shift_end_dt == dt_combine(sh.date, sh.end_time)
        window_start == shift_start_dt - EARLY_WINDOW_MINUTES * MinuteTicks
        window_end == shift_start_dt + NO_SHOW_MINUTES * MinuteTicks
        m == matched_in(emp_sessions, window_start, window_end)
        minutes_late == (m - shift_start_dt) \div MinuteTicks
    IN  IF ~ covered(emp_sessions, shift_start_dt, shift_end_dt, t)
        THEN [status |-> "NO_SHOW", minutes_late |-> NULL, in_time |-> m]
        ELSE IF m = NULL
        THEN [status |-> "COVERED", minutes_late |-> NULL, in_time |-> m]
        ELSE IF minutes_late <= GRACE_MINUTES
        THEN [status |-> "ON_TIME", minutes_late |-> minutes_late, in_time |-> m]
        ELSE [status |-> "LATE", minutes_late |-> minutes_late, in_time |-> m]

\* lines 337-390 (and 492-537): the body of the loop over the shifts: the
\* status, minutes_late and in_time of the row of shift sh
Classify(sh, emp_sessions, t) ==
    LET shift_start_dt == dt_combine(sh.date, sh.start_time)
        shift_end_dt == dt_combine(sh.date, sh.end_time)
        window_start == shift_start_dt - EARLY_WINDOW_MINUTES * MinuteTicks
        window_end == shift_start_dt + NO_SHOW_MINUTES * MinuteTicks
        m == matched_in(emp_sessions, window_start, window_end)
        diff_min == (m - shift_start_dt) \div MinuteTicks
        minutes_late == IF diff_min > 0 THEN diff_min ELSE 0
    IN  IF ~ covered(emp_sessions, shift_start_dt, shift_end_dt, t)
        THEN [status |-> "NO_SHOW", minutes_late |-> NULL, in_time |-> m]
        ELSE IF m = NULL
        THEN [status |-> "COVERED", minutes_late |-> NULL, in_time |-> m]
        ELSE IF minutes_late <= GRACE_MINUTES
        THEN [status |-> "ON_TIME", minutes_late |-> minutes_late, in_time |-> m]
        ELSE [status |-> "LATE", minutes_late |-> minutes_late, in_time |-> m]

\* round(n / d, 0) as Python rounds: to the nearest, a tie to the even
RoundHalfEven(n, d) ==
    LET q == n \div d
        r2 == 2 * (n % d)
    IN  IF r2 > d \/ (r2 = d /\ q % 2 = 1) THEN q + 1 ELSE q

\* Rate with the slip of truncating instead of rounding
Rate_Truncated(count, scheduled) ==
    IF scheduled # 0 THEN (count * 1000) \div scheduled ELSE 0

\* lines 392-395 and 539-541: round((count / scheduled) * 100, 1) if
\* scheduled else 0.0, in tenths of a percent
Rate(count, scheduled) ==
    IF scheduled # 0 THEN RoundHalfEven(count * 1000, scheduled) ELSE 0

-----------------------------------------------------------------------------
(* manager_dashboard: leave, the daily and the monthly pass                *)

\* lines 291-297
approved_leave_today_emp_ids(today) ==
    {lv.employee : lv \in {l \in leaves : /\ l.status = "APPROVED"
                                          /\ l.date_from <= today
                                          /\ l.date_to >= today}}

\* is_on_leave with the slip of leaving out the filter on the status
is_on_leave_AnyStatus(emp_id, d, month_start, month_end) ==
    \E lv \in leaves :
        /\ lv.date_from < month_end
        /\ lv.date_to >= month_start
        /\ lv.employee = emp_id
        /\ lv.date_from <= d
        /\ d <= lv.date_to

\* lines 423-435: month_leaves and is_on_leave
is_on_leave(emp_id, d, month_start, month_end) ==
    \E lv \in leaves :
        /\ lv.status = "APPROVED"
        /\ lv.date_from < month_end
        /\ lv.date_to >= month_start
        /\ lv.employee = emp_id
        /\ lv.date_from <= d
        /\ d <= lv.date_to

\* lines 269-288: pending_qs, the count of the rows of the week per division
\* (a division without such a row has no entry; here its count is 0)
pending_rosters(week_start, week_end) ==
    [dv \in Divisions |->
        Cardinality({sh \in shifts : /\ sh.division = dv
                                     /\ sh.date >= week_start
                                     /\ sh.date < week_end
                                     /\ sh.status = "SUBMITTED"})]

\* lines 299-308: the approved shifts of today, less those of staff on leave
shifts_today(today) ==
    {sh \in shifts : /\ sh.date = today
                     /\ sh.status = "APPROVED"
                     /\ sh.employee \notin approved_leave_today_emp_ids(today)}

\* lines 416-421 and 486-490: the approved shifts of the month that the loop
\* does not skip for leave
month_shifts(month_start, month_end) ==
    {sh \in shifts : /\ sh.date >= month_start
                     /\ sh.date < month_end
                     /\ sh.status = "APPROVED"
                     /\ ~ is_on_leave(sh.employee, sh.date, month_start, month_end)}

\* line 334: the counters of the daily pass before the loop
NoTally == [on_time |-> 0, late |-> 0, no_show |-> 0, attended |-> 0, covered_only |-> 0]

\* Tally with the slip of not counting a COVERED shift as on time
Tally_CoveredNotOnTime(c, status) ==
    IF status = "NO_SHOW"
    THEN [c EXCEPT !.no_show = @ + 1]
    ELSE IF status = "COVERED"
    THEN [c EXCEPT !.attended = @ + 1, !.covered_only = @ + 1]
    ELSE IF status = "ON_TIME"
    THEN [c EXCEPT !.attended = @ + 1, !.on_time = @ + 1]
    ELSE [c EXCEPT !.attended = @ + 1, !.late = @ + 1]

\* lines 356-380: the counters after one more shift of the daily loop
Tally(c, status) ==
    IF status = "NO_SHOW"
    THEN [c EXCEPT !.no_show = @ + 1]
    ELSE IF status = "COVERED"
    THEN [c EXCEPT !.attended = @ + 1, !.covered_only = @ + 1, !.on_time = @ + 1]
    ELSE IF status = "ON_TIME"
    THEN [c EXCEPT !.attended = @ + 1, !.on_time = @ + 1]
    ELSE [c EXCEPT !.attended = @ + 1, !.late = @ + 1]

\* lines 337-390: the daily loop over the classified shifts
RECURSIVE TallyAll(_)
TallyAll(rows) ==
    IF rows = {} THEN NoTally
    ELSE LET r == CHOOSE x \in rows : TRUE
         IN  Tally(TallyAll(rows \ {r}), r.row.status)

\* lines 483-484 and 510-513: the counters of the monthly pass before the
\* loop, and those of an employee before the first shift
NoMonthTally ==
    [m_scheduled |-> 0, m_attended |-> 0, m_ontime |-> 0, m_late |-> 0, m_noshow |-> 0,
     per_emp |-> << >>]

NoStats == [scheduled |-> 0, attended |-> 0, late |-> 0, noshow |-> 0]

\* lines 490 and 510-537: the counters after one more shift of the monthly
\* loop
MonthTally(c, emp, status) ==
    LET old == IF emp \in DOMAIN c.per_emp THEN c.per_emp[emp] ELSE NoStats
        scheduled == [old EXCEPT !.scheduled = @ + 1]
        stats ==
            IF status = "NO_SHOW" THEN [scheduled EXCEPT !.noshow = @ + 1]
            ELSE IF status \in {"COVERED", "ON_TIME"} THEN [scheduled EXCEPT !.attended = @ + 1]
            ELSE [scheduled EXCEPT !.attended = @ + 1, !.late = @ + 1]
        per_emp == [e \in DOMAIN c.per_emp \cup {emp} |->
                       IF e = emp THEN stats ELSE c.per_emp[e]]
        counted == [c EXCEPT !.m_scheduled = @ + 1, !.per_emp = per_emp]
    IN  IF status = "NO_SHOW" THEN [counted EXCEPT !.m_noshow = @ + 1]
        ELSE IF status \in {"COVERED", "ON_TIME"}
        THEN [counted EXCEPT !.m_attended = @ + 1, !.m_ontime = @ + 1]
        ELSE [counted EXCEPT !.m_attended = @ + 1, !.m_late = @ + 1]

\* lines 486-537: the monthly loop over the classified shifts
RECURSIVE MonthTallyAll(_)
MonthTallyAll(rows) ==
    IF rows = {} THEN NoMonthTally
    ELSE LET r == CHOOSE x \in rows : TRUE
         IN  MonthTally(MonthTallyAll(rows \ {r}), r.shift.employee, r.row.status)

\* lines 253-580: the context built by the view at instant t
Dashboard(t) ==
    LET today == localdate(t)
        start == dt_combine(today, 0)
        end == start + DayTicks
        month_start == MonthStart(today)
        month_end == NextMonth(today)
        week_start == WeekStart(today)
        week_end == week_start + DaysInWeek
        punctual_rows ==
            {[shift |-> sh,
              row |-> Classify(sh, sessions_by_emp(sh.employee, start, end), t)] :
                 sh \in shifts_today(today)}
        c == TallyAll(punctual_rows)
        scheduled == Cardinality(shifts_today(today))
        month_rows ==
            {[shift |-> sh,
              row |-> Classify(sh, month_sessions_by_emp_date(sh.employee, sh.date,
                                                              month_start, month_end, t), t)] :
                 sh \in month_shifts(month_start, month_end)}
        m == MonthTallyAll(month_rows)
    IN  [ran |-> TRUE,
         today |-> today,
         scheduled_shifts |-> scheduled,
         attended_shifts |-> c.attended,
         on_time_shifts |-> c.on_time,
         late_shifts |-> c.late,
         no_show_shifts |-> c.no_show,
         covered_shifts |-> c.covered_only,
         attendance_rate |-> Rate(c.attended, scheduled),
         on_time_rate |-> Rate(c.on_time, scheduled),
         late_rate |-> Rate(c.late, scheduled),
         pending_rosters |-> pending_rosters(week_start, week_end),
         punctual_rows |-> punctual_rows,
         month_rows |-> month_rows,
         monthly_scheduled |-> m.m_scheduled,
         m_attended |-> m.m_attended,
         m_ontime |-> m.m_ontime,
         m_late |-> m.m_late,
         m_noshow |-> m.m_noshow,
         monthly_att_rate |-> Rate(m.m_attended, m.m_scheduled),
         monthly_ontime_rate |-> Rate(m.m_ontime, m.m_scheduled),
         monthly_late_rate |-> Rate(m.m_late, m.m_scheduled),
         per_emp |-> m.per_emp]

\* GET /manager/ by a manager
manager_dashboard ==
    /\ dash' = Dashboard(now)
    /\ UNCHANGED <<now, punchVars, tokenVars, shifts, leaves, templates, op>>

-----------------------------------------------------------------------------
(* The tables the dashboard specification starts from                      *)

\* the day the dashboard is looked at: the Tuesday of the second week
Today == DaysInWeek + 1

SessRow(e, in_time, out_time) ==
    [employee |-> e, clock_in_time |-> in_time, clock_out_time |-> out_time,
     is_open |-> out_time = NULL]

\* a ShiftAssignment row as roster_week creates it from template tid (or, as
\* DRAFT, as the model's default status leaves it)
ShiftRow(e, d, tid, status) ==
    [employee |-> e, division |-> DivisionOf(e), date |-> d, template |-> tid,
     start_time |-> InitTemplates[tid].start_time,
     end_time |-> InitTemplates[tid].end_time,
     status |-> status,
     entered_by |-> IF status = "SUBMITTED" THEN "editor" ELSE "manager",
     approved_by |-> IF status = "APPROVED" THEN "manager" ELSE NoUser]

LeaveRow(e, date_from, date_to, status) ==
    [employee |-> e, date_from |-> date_from, date_to |-> date_to, status |-> status]

\* clock-ins around the edges of the punctuality window and of the grace
\* period of a shift 09:00-17:00 of today, and one of the evening before
InTimes ==
    { dt_combine(Today - 1, Clock(23, 0)),
      dt_combine(Today, Clock(8, 0)) - 1,
      dt_combine(Today, Clock(8, 0)),
      dt_combine(Today, Clock(9, 10)),
      dt_combine(Today, Clock(9, 16)) - 1,
      dt_combine(Today, Clock(9, 16)),
      dt_combine(Today, Clock(9, 20)),
      dt_combine(Today, Clock(11, 0)),
      dt_combine(Today, Clock(11, 0)) + 1,
      dt_combine(Today, Clock(17, 0)),
      dt_combine(Today, Clock(17, 0)) + 1 }

\* clock-outs before, at and after the start of that shift
OutTimes ==
    { dt_combine(Today, Clock(8, 30)),
      dt_combine(Today, Clock(9, 0)) - 1,
      dt_combine(Today, Clock(9, 0)),
      dt_combine(Today, Clock(12, 0)),
      dt_combine(Today, Clock(18, 0)) }

\* the instants at which the dashboard is looked at
DashInstants ==
    { dt_combine(Today, Clock(8, 45)),
      dt_combine(Today, Clock(10, 0)),
      dt_combine(Today, Clock(19, 0)) }

\* session rows of employee 1 that punches up to instant t can have left
CandidateSessions(t) ==
    {SessRow(1, i, o) : i \in {x \in InTimes : x <= t},
                        o \in {NULL} \cup {x \in OutTimes : x <= t}}
    \ {r \in [employee : {1}, clock_in_time : InTimes, clock_out_time : OutTimes,
              is_open : {FALSE}] : r.clock_out_time < r.clock_in_time}

\* a session table punches handled one after the other can have left: every
\* session but the last is closed, and closed before the next one is opened
SessionTable(seq) ==
    \A k \in 1 .. Len(seq) - 1 :
        /\ seq[k].clock_out_time # NULL
        /\ seq[k].clock_out_time <= seq[k + 1].clock_in_time

SessionTables(t) ==
    UNION {{seq \in [1 .. n -> CandidateSessions(t)] : SessionTable(seq)} :
              n \in 0 .. MaxDashSessions}

\* a few session tables over both employees and two weeks
FewSessionTables ==
    { << >>,
      << SessRow(1, dt_combine(Today, Clock(9, 10)), dt_combine(Today, Clock(18, 0))) >>,
      << SessRow(1, dt_combine(Today - DaysInWeek, Clock(9, 20)),
                    dt_combine(Today - DaysInWeek, Clock(17, 0))),
         SessRow(2, dt_combine(Today, Clock(9, 20)), NULL) >>,
      << SessRow(2, dt_combine(Today - 1, Clock(23, 0)), NULL),
         SessRow(1, dt_combine(Today, Clock(8, 0)) - 1, NULL) >> }

\* the (employee, date, template) of the shift rows of the tables
ShiftSlots ==
    { <<1, Today, 1>>, <<1, Today, 2>>, <<1, Today + 1, 1>>, <<2, Today, 3>>,
      <<1, Today - DaysInWeek, 1>>, <<2, DaysInMonth, 3>> }

ShiftTables ==
    UNION {{ {ShiftRow(c[1], c[2], c[3], f[c]) : c \in S} :
                f \in [S -> {"DRAFT", "SUBMITTED", "APPROVED"}] } :
              S \in {X \in SUBSET ShiftSlots : Cardinality(X) <= MaxDashShifts}}

LeaveTables ==
    { {} } \cup
    { {lv} : lv \in { LeaveRow(1, Today, Today, "APPROVED"),
                      LeaveRow(1, Today - DaysInWeek, Today - 1, "APPROVED"),
                      LeaveRow(1, 0, Today + 1, "APPROVED"),
                      LeaveRow(1, Today, Today, "SUBMITTED"),
                      LeaveRow(1, Today - DaysInWeek, Today, "REJECTED"),
                      LeaveRow(2, Today, DaysInMonth + 1, "APPROVED") } }

\* the events the punches that left session table seq have appended
EventsOf(seq) ==
    [j \in 1 .. (2 * Len(seq) - Cardinality({k \in 1 .. Len(seq) : seq[k].is_open})) |->
        [event_type |-> IF j % 2 = 1 THEN "IN" ELSE "OUT",
         session |-> (j + 1) \div 2,
         subject_employee |-> seq[(j + 1) \div 2].employee,
         witness_employee |-> 0,
         is_proxy |-> FALSE]]

-----------------------------------------------------------------------------
(* roster_week and approve_roster_week                                     *)

\* lines 613-621: the active rostered employees of a division
EmployeesOf(dv) == {e \in ActiveIds : DivisionOf(e) = dv}

\* [week_start + timedelta(days=i) for i in range(7)]
DaysOf(week_start) == week_start .. (week_start + DaysInWeek - 1)

\* lines 655-669: the rows created for one cell from the selected template
\* ids, one after the other, on top of the rows of table; a row that repeats
\* the (employee, date, start_time, end_time) of a row of the table breaks
\* unique_together (models.py:142): create raises IntegrityError and the
\* request ends there (ok is false), the writes made so far staying
RECURSIVE CreateSelected(_, _, _, _, _, _)
CreateSelected(table, emp, dv, d, tids, u) ==
    IF tids = << >> THEN [rows |-> table, ok |-> TRUE]
    ELSE LET tid == Head(tids)
             row == [employee |-> emp, division |-> dv, date |-> d, template |-> tid,
                     start_time |-> templates[tid].start_time,
                     end_time |-> templates[tid].end_time,
                     status |-> IF ~ is_staff(u) THEN "SUBMITTED" ELSE "APPROVED",
                     entered_by |-> u,
                     approved_by |-> IF is_staff(u) THEN u ELSE NoUser]
         IN  IF \/ tid \notin TemplateIds
                \/ templates[tid].division # dv
                \/ ~ templates[tid].is_active
             THEN CreateSelected(table, emp, dv, d, Tail(tids), u)
             ELSE IF \E x \in table : /\ x.employee = emp
                                      /\ x.date = d
                                      /\ x.start_time = row.start_time
                                      /\ x.end_time = row.end_time
             THEN [rows |-> table, ok |-> FALSE]
             ELSE CreateSelected(table \cup {row}, emp, dv, d, Tail(tids), u)

\* ReplaceCells with the slip of checking the new rows against the rows
\* read before the delete (existing, lines 629-633)
RECURSIVE ReplaceCells_StaleCheck(_, _, _, _, _)
ReplaceCells_StaleCheck(table, cells, dv, sel, u) ==
    IF cells = << >> THEN table
    ELSE LET c == Head(cells)
             kept == {x \in table : ~ (/\ x.employee = c[1]
                                       /\ x.division = dv
                                       /\ x.date = c[2])}
             stale == CreateSelected(table, c[1], dv, c[2], sel[c], u)
             r == CreateSelected(kept, c[1], dv, c[2], sel[c], u)
         IN  IF ~ stale.ok THEN kept
             ELSE IF r.ok THEN ReplaceCells_StaleCheck(r.rows, Tail(cells), dv, sel, u)
             ELSE r.rows

\* lines 646-669: for each employee and day, delete the rows of the cell,
\* then create the selected ones
RECURSIVE ReplaceCells(_, _, _, _, _)
ReplaceCells(table, cells, dv, sel, u) ==
    IF cells = << >> THEN table
    ELSE LET c == Head(cells)
             kept == {x \in table : ~ (/\ x.employee = c[1]
                                       /\ x.division = dv
                                       /\ x.date = c[2])}
             r == CreateSelected(kept, c[1], dv, c[2], sel[c], u)
         IN  IF r.ok THEN ReplaceCells(r.rows, Tail(cells), dv, sel, u)
             ELSE r.rows

\* the cells of a week in the order of the loops: employees by name, days
\* in order (a division has one rostered employee here)
CellsOf(dv, week_start) ==
    LET e == CHOOSE x \in EmployeesOf(dv) : TRUE
    IN  [k \in 1 .. DaysInWeek |-> <<e, week_start + k - 1>>]

\* the POST data: shifts_<emp>_<date> lists for the second and the third
\* day of the week (no key, hence [], for the other days)
Selections(dv, week_start) ==
    LET e == CHOOSE x \in EmployeesOf(dv) : TRUE
        first == IF dv = 1 THEN {<< >>, <<1>>, <<1, 2>>, <<1, 1>>} ELSE {<< >>, <<3>>}
        second == IF dv = 1 THEN {<< >>, <<1>>} ELSE {<< >>}
    IN  {[c \in {<<e, d>> : d \in DaysOf(week_start)} |->
            IF c[2] = week_start + 1 THEN a
            ELSE IF c[2] = week_start + 2 THEN b
            ELSE << >>] : a \in first, b \in second}

\* the weeks requests name
WeekStarts == {0, DaysInWeek}

\* lines 591-671: POST /roster/?division=dv&week_start=... by user u
roster_week(u, dv, week_start, sel) ==
    /\ served < MaxRosterOps
    /\ dv \in editable_divisions_for(u)
    /\ shifts' = ReplaceCells(shifts, CellsOf(dv, week_start), dv, sel, u)
    /\ op' = [name |-> "roster_week", user |-> u, division |-> dv,
              week_start |-> week_start, sel |-> sel,
              again |-> /\ op.name = "roster_week"
                        /\ op.user = u
                        /\ op.division = dv
                        /\ op.week_start = week_start
                        /\ op.sel = sel]
    /\ served' = served + 1
    /\ UNCHANGED <<now, sessions, events, pc, req, loc, resp, okCount, prev,
                   tokenVars, leaves, templates, dash>>

\* approve_roster_week with the slip of leaving out the filter on the division
approve_roster_week_AnyDivision(u, dv, week_start) ==
    /\ served < MaxRosterOps
    /\ is_staff(u)
    /\ shifts' = {IF /\ sh.date \in DaysOf(week_start)
                     /\ sh.status \in {"DRAFT", "SUBMITTED"}
                  THEN [sh EXCEPT !.status = "APPROVED", !.approved_by = u]
                  ELSE sh : sh \in shifts}
    /\ op' = [name |-> "approve_roster_week", user |-> u, division |-> dv,
              week_start |-> week_start, sel |-> << >>, again |-> FALSE]
    /\ served' = served + 1
    /\ UNCHANGED <<now, sessions, events, pc, req, loc, resp, okCount, prev,
                   tokenVars, leaves, templates, dash>>

\* lines 709-721: POST /roster/approve/ by a manager
approve_roster_week(u, dv, week_start) ==
    /\ served < MaxRosterOps
    /\ is_staff(u)
    /\ shifts' = {IF /\ sh.division = dv
                     /\ sh.date \in DaysOf(week_start)
                     /\ sh.status \in {"DRAFT", "SUBMITTED"}
                  THEN [sh EXCEPT !.status = "APPROVED", !.approved_by = u]
                  ELSE sh : sh \in shifts}
    /\ op' = [name |-> "approve_roster_week", user |-> u, division |-> dv,
              week_start |-> week_start, sel |-> << >>, again |-> FALSE]
    /\ served' = served + 1
    /\ UNCHANGED <<now, sessions, events, pc, req, loc, resp, okCount, prev,
                   tokenVars, leaves, templates, dash>>

\* the times a template is edited to
TemplateTimes == { <<Clock(10, 0), Clock(18, 0)>>, <<Clock(13, 0), Clock(21, 0)>> }

\* ShiftTemplateAdmin (admin.py:32-36): the times of template 1 are edited
EditTemplate(times) ==
    /\ served < MaxRosterOps
    /\ templates[1].start_time # times[1]
    /\ templates' = [templates EXCEPT ![1].start_time = times[1], ![1].end_time = times[2]]
    /\ op' = [name |-> "edit_template", user |-> "manager", division |-> 1,
              week_start |-> 0, sel |-> << >>, again |-> FALSE]
    /\ served' = served + 1
    /\ UNCHANGED <<now, sessions, events, pc, req, loc, resp, okCount, prev,
                   tokenVars, shifts, leaves, dash>>

\* the shift tables the roster specification starts from: none, or a DRAFT
\* and a SUBMITTED row of division 1 in the second week, an APPROVED row of
\* division 1 in the first week and a SUBMITTED row of division 2
InitRosterTables ==
    { {},
      { ShiftRow(1, DaysInWeek + 1, 1, "DRAFT"),
        ShiftRow(1, DaysInWeek + 2, 1, "SUBMITTED"),
        ShiftRow(1, 1, 1, "APPROVED"),
        ShiftRow(2, DaysInWeek + 1, 3, "SUBMITTED") } }

(***************************************************************************)
(* api_employee_status, views.py 76-120                                    *)
(***************************************************************************)
NoStatus == "none"

\* lines 83-88 with the employee left out of the filter
open_session_AnyEmployee(e) ==
    LET open == {i \in SessionIds : sessions[i].is_open}
    IN  IF open = {} THEN 0 ELSE CHOOSE i \in open : \A j \in open : j <= i

\* lines 83-88: the employee's open session of highest id, 0 when none
open_session(e) == OpenSessionOf(e)

\* lines 104-110: the employee's session of highest id that has a clock-in
last_session(e) ==
    LET S == {i \in SessionIds : /\ sessions[i].employee = e
                                 /\ sessions[i].clock_in_time # NULL}
    IN  IF S = {} THEN 0 ELSE CHOOSE i \in S : \A j \in S : j <= i

\* the JSON answer of the view; 404 for a missing or inactive employee
api_employee_status(employee_id) ==
    IF ~ EmployeeFound(employee_id)
    THEN [status |-> 404, error |-> "Invalid employee",
          current_state |-> NoStatus, next_action |-> NoStatus, since |-> NULL]
    ELSE IF ClockedIn(open_session(employee_id))
    THEN [status |-> 200, error |-> NoStatus,
          current_state |-> "IN", next_action |-> "OUT",
          since |-> sessions[open_session(employee_id)].clock_in_time]
    ELSE [status |-> 200, error |-> NoStatus,
          current_state |-> "OUT", next_action |-> "IN",
          since |-> IF last_session(employee_id) = 0 THEN NULL
                    ELSE sessions[last_session(employee_id)].clock_out_time]

(***************************************************************************)
(* api_qr_check, views.py 124-131                                          *)
(***************************************************************************)
api_qr_check(token, t) ==
    LET expires_in == token_expires_in(token, WindowSeconds, MaxAgeSeconds, t)
    IN  [valid |-> expires_in > 0, expires_in |-> expires_in]

-----------------------------------------------------------------------------
(* Specifications *)

Init ==
    /\ now = 0
    /\ sessions = <<>>
    /\ events = <<>>
    /\ pc = [w \in Workers |-> "idle"]
    /\ req = [w \in Workers |-> NoRequest]
    /\ loc = [w \in Workers |-> NoLocals]
    /\ resp = [w \in Workers |-> NoResponse]
    /\ served = 0
    /\ okCount = 0
    /\ prev = [e \in ActiveIds |-> NoPrev]
    /\ tok = ForgedToken
    /\ issuedAt = 0
    /\ shifts = {}
    /\ leaves = {}
    /\ templates = InitTemplates
    /\ dash = NoDash
    /\ op = NoOp

\* requests handled concurrently by the workers
Next ==
    \/ Tick
    \/ \E w \in Workers :
          \/ /\ pc[w] = "idle"
             /\ served < MaxPunches
             /\ \E r \in CoreRequests(now) : Arrive(w, r, MaxPunches)
          \/ Receive(w)
          \/ CreateSession(w)
          \/ SaveOut(w)
          \/ CreateEvent(w)
          \/ EventFails(w)
          \/ Reply(w)

Spec == Init /\ [][Next]_vars

\* one worker: requests handled one after the other, over the whole input space
NextSerial ==
    \/ Tick
    \/ /\ pc[1] = "idle"
       /\ served < MaxSerialPunches
       /\ \E r \in AllRequests : Arrive(1, r, MaxSerialPunches)
    \/ Receive(1)
    \/ CreateSession(1)
    \/ SaveOut(1)
    \/ CreateEvent(1)
    \/ EventFails(1)
    \/ Reply(1)

SpecSerial == Init /\ [][NextSerial]_vars

\* the token alone: issued at any instant, looked at at any later instant
NextToken == Issue \/ TokTick

SpecToken == Init /\ [][NextToken]_vars


\* the dashboard alone, over session, shift and leave tables drawn from the
\* tables above: many session tables against the one approved shift
\* 09:00-17:00 of employee 1, or many shift and leave tables against a few
\* session tables
InitDash ==
    /\ now \in DashInstants
    /\ \/ /\ sessions \in SessionTables(now)
          /\ shifts = {ShiftRow(1, Today, 1, "APPROVED")}
          /\ leaves = {}
       \/ /\ now = dt_combine(Today, Clock(19, 0))
          /\ sessions \in FewSessionTables
          /\ shifts \in ShiftTables
          /\ leaves \in LeaveTables
    /\ events = EventsOf(sessions)
    /\ pc = [w \in Workers |-> "idle"]
    /\ req = [w \in Workers |-> NoRequest]
    /\ loc = [w \in Workers |-> NoLocals]
    /\ resp = [w \in Workers |-> NoResponse]
    /\ served = Len(events)
    /\ okCount = Len(events)
    /\ prev = [e \in ActiveIds |-> NoPrev]
    /\ tok = ForgedToken
    /\ issuedAt = 0
    /\ templates = InitTemplates
    /\ dash = NoDash
    /\ op = NoOp

NextDash == manager_dashboard

SpecDash == InitDash /\ [][NextDash]_vars


\* the roster alone: replacements by the editor and the manager, approvals
\* and template edits, in any order
InitRoster ==
    /\ now = dt_combine(Today, Clock(10, 0))
    /\ sessions = << >>
    /\ events = << >>
    /\ pc = [w \in Workers |-> "idle"]
    /\ req = [w \in Workers |-> NoRequest]
    /\ loc = [w \in Workers |-> NoLocals]
    /\ resp = [w \in Workers |-> NoResponse]
    /\ served = 0
    /\ okCount = 0
    /\ prev = [e \in ActiveIds |-> NoPrev]
    /\ tok = ForgedToken
    /\ issuedAt = 0
    /\ shifts \in InitRosterTables
    /\ leaves = {}
    /\ templates = InitTemplates
    /\ dash = NoDash
    /\ op = NoOp

NextRoster ==
    \/ \E u \in Users, dv \in Divisions, ws \in WeekStarts :
          \E sel \in Selections(dv, ws) : roster_week(u, dv, ws, sel)
    \/ \E u \in Users, dv \in Divisions, ws \in WeekStarts :
          approve_roster_week(u, dv, ws)
    \/ \E times \in TemplateTimes : EditTemplate(times)

SpecRoster == InitRoster /\ [][NextRoster]_vars

-----------------------------------------------------------------------------
(* Properties *)

RejectKinds ==
    {"InvalidAction", "TokenExpired", "PhotoMissing", "PhotoTooLarge",
     "EmployeeNotFound", "WrongSecret", "WitnessRequired", "WitnessNotFound",
     "WrongWitnessSecret", "WitnessIsSubject", "AlreadyClockedIn", "NoOpenSession"}

\* worker w answers its request in this step
Answers(w) == pc[w] # "done" /\ pc'[w] = "done"
\* worker w runs the checks of its request in this step
Checks(w) == pc[w] = "recv" /\ pc'[w] # "recv"

HasEvent(type, i) ==
    \E k \in 1 .. Len(events) : events[k].event_type = type /\ events[k].session = i

\* C1: every employee has at most one session with is_open = true, in every
\* reachable state, also when two IN punches of one employee are handled
\* concurrently.
C1_OneOpenSessionPerEmployee ==
    \A e \in EmployeeIds : OpenCount(e) <= 1

\* C2: a punch is all-or-nothing: apart from the request that is between its
\* two writes, every session has its IN event and every closed session its
\* OUT event, also after a request has stopped between the two writes.
C2_PunchAllOrNothing ==
    \A i \in SessionIds :
        /\ \/ HasEvent("IN", i)
           \/ \E w \in Workers : pc[w] = "in_event" /\ loc[w].session = i
        /\ ~ sessions[i].is_open =>
              \/ HasEvent("OUT", i)
              \/ \E w \in Workers : pc[w] = "out_event" /\ loc[w].session = i

\* C3: a request answered with one of the twelve error kinds is answered by
\* the checking step, before any write of the handler, and that step leaves
\* the session rows and the event rows as they were.
C3_RejectedPunchIsPure ==
    [][\A w \in Workers :
          (Answers(w) /\ resp'[w].kind \in RejectKinds)
             => (pc[w] = "recv" /\ sessions' = sessions /\ events' = events)]_vars

C3_Witness ==
    \E w \in Workers :
        /\ pc[w] = "done"
        /\ resp[w].kind = "AlreadyClockedIn"
        /\ Len(sessions) = 1
        /\ Len(events) = 1

\* C4: for a punch past the input checks, an IN is accepted iff the subject
\* has no open session, and the session is created in such a state, open,
\* with clock_in_time = now; an OUT is accepted iff the subject has an open
\* session, and it closes that open session with clock_out_time = now.
C4_SessionRule ==
    [][\A w \in Workers :
          LET r == req[w]
              e == r.subject_employee_id
          IN  /\ (Checks(w) /\ InputChecks(r, now) = "pass" /\ r.action = "IN") =>
                    IF OpenCount(e) = 0
                    THEN pc'[w] = "in_session"
                    ELSE pc'[w] = "done" /\ resp'[w].kind = "AlreadyClockedIn"
              /\ (Checks(w) /\ InputChecks(r, now) = "pass" /\ r.action = "OUT") =>
                    IF OpenCount(e) > 0
                    THEN pc'[w] = "out_save"
                    ELSE pc'[w] = "done" /\ resp'[w].kind = "NoOpenSession"
              /\ (pc[w] = "in_session" /\ pc'[w] = "in_event") =>
                    /\ OpenCount(e) = 0
                    /\ sessions' = Append(sessions,
                                     [employee |-> e, clock_in_time |-> loc[w].now,
                                      clock_out_time |-> NULL, is_open |-> TRUE])
              /\ (pc[w] = "out_save" /\ pc'[w] = "out_event") =>
                    /\ sessions[loc[w].open_session].is_open
                    /\ sessions[loc[w].open_session].employee = e
                    /\ ~ sessions'[loc[w].open_session].is_open
                    /\ sessions'[loc[w].open_session].clock_out_time = loc[w].now]_vars

\* C5: for an employee without open session an otherwise valid OUT is
\* answered NoOpenSession; the otherwise valid IN that follows it is not
\* rejected, and once it has created its session (and when it is answered ok)
\* the employee has exactly one open session.
C5_OutThenIn ==
    [][\A w \in Workers :
          LET r == req[w]
              e == r.subject_employee_id
          IN  /\ (Checks(w) /\ InputChecks(r, now) = "pass" /\ r.action = "OUT"
                    /\ OpenCount(e) = 0)
                    => (pc'[w] = "done" /\ resp'[w].kind = "NoOpenSession"
                        /\ sessions' = sessions)
              /\ (e \in ActiveIds /\ r.action = "IN"
                    /\ prev[e] = [action |-> "OUT", kind |-> "NoOpenSession"]) =>
                    /\ (Checks(w) /\ InputChecks(r, now) = "pass") => pc'[w] = "in_session"
                    /\ pc'[w] = "in_event" =>
                          Cardinality({i \in 1 .. Len(sessions') :
                              sessions'[i].employee = e /\ sessions'[i].is_open}) = 1
                    /\ (Answers(w) /\ pc[w] = "in_event") =>
                          (resp'[w].kind \in {"ok", "ServerError"} /\ OpenCount(e) = 1)]_vars

\* an IN answered ok right after an OUT answered NoOpenSession, for an
\* employee who has clocked in and out before
C5_Witness ==
    \E w \in Workers :
        /\ pc[w] = "done"
        /\ req[w].action = "IN"
        /\ req[w].subject_employee_id = 1
        /\ resp[w].kind = "ok"
        /\ prev[1] = [action |-> "OUT", kind |-> "NoOpenSession"]
        /\ Len(sessions) = 2
        /\ OpenCount(1) = 1

\* C6: the number of event rows is the number of ok answers (returned, or
\* built and about to be returned); the event table changes only by one row
\* appended by a request answered ok in that step, of that request's action
\* and subject, pointing at the session the request created or closed.
C6_EventsCountOk ==
    Len(events) = okCount + Cardinality({w \in Workers : pc[w] = "done" /\ resp[w].kind = "ok"})

C6_EventAppend ==
    events' # events =>
        \E w \in Workers :
            /\ Answers(w)
            /\ resp'[w].kind = "ok"
            /\ Len(events') = Len(events) + 1
            /\ SubSeq(events', 1, Len(events)) = events
            /\ LET ev == events'[Len(events')]
               IN  /\ ev.event_type = req[w].action
                   /\ ev.subject_employee = req[w].subject_employee_id
                   /\ ev.session = loc[w].session
                   /\ ev.session \in SessionIds
                   /\ sessions[ev.session].employee = req[w].subject_employee_id
                   /\ ev.event_type = "IN" =>
                         /\ sessions[ev.session].clock_in_time = loc[w].now
                         /\ ev.session # loc[w].open_session
                   /\ ev.event_type = "OUT" =>
                         /\ ev.session = loc[w].open_session
                         /\ ~ sessions[ev.session].is_open

C6_OneEventPerOk ==
    [] C6_EventsCountOk /\ [][C6_EventAppend]_vars

C6_Witness ==
    /\ okCount = 2
    /\ Len(events) = 2
    /\ events[1].event_type = "IN"
    /\ events[2].event_type = "OUT"
    /\ events[2].session = events[1].session
    /\ \A w \in Workers : pc[w] = "idle"

\* C7: the checks of the claim, in its order, and for each whether request r
\* fails it at instant t in the current state of the session table
CheckKinds ==
    << "InvalidAction", "TokenExpired", "PhotoMissing", "PhotoTooLarge",
       "EmployeeNotFound", "WrongSecret", "WitnessRequired", "WitnessNotFound",
       "WrongWitnessSecret", "WitnessIsSubject", "StateRule" >>

FailsCheck(k, r, t) ==
    CASE k = 1 -> r.action # "IN" /\ r.action # "OUT"
      [] k = 2 -> token_expires_in(r.qr_token, WindowSeconds, MaxAgeSeconds, t) = 0
      [] k = 3 -> r.photo = "absent"
      [] k = 4 -> r.photo # "absent" /\ PhotoSize(r.photo) > MAX_UPLOAD
      [] k = 5 -> r.subject_employee_id \notin ActiveIds
      [] k = 6 -> r.subject_pin # PinOf(r.subject_employee_id)
      [] k = 7 -> r.is_proxy /\ (r.witness_employee_id = 0 \/ r.witness_pin = "")
      [] k = 8 -> r.is_proxy /\ r.witness_employee_id \notin ActiveIds
      [] k = 9 -> r.is_proxy /\ r.witness_pin # PinOf(r.witness_employee_id)
      [] k = 10 -> r.is_proxy /\ r.witness_employee_id = r.subject_employee_id
      [] OTHER -> \/ r.action = "IN" /\ OpenCount(r.subject_employee_id) > 0
                  \/ r.action = "OUT" /\ OpenCount(r.subject_employee_id) = 0

FailedChecks(r, t) == {k \in 1 .. Len(CheckKinds) : FailsCheck(k, r, t)}

FirstFailing(r, t) ==
    IF FailedChecks(r, t) = {} THEN 0
    ELSE CHOOSE k \in FailedChecks(r, t) : \A j \in FailedChecks(r, t) : k <= j

StateRuleKind(r) == IF r.action = "IN" THEN "AlreadyClockedIn" ELSE "NoOpenSession"

\* C7: the checks are evaluated in the fixed order action, token, photo
\* present, photo size, subject, subject PIN, witness supplied, witness
\* found, witness PIN, witness differs from subject, session state rule: a
\* request is answered with the error of the earliest check it fails, and
\* goes on to its writes iff it fails none.
C7_EarliestFailingCheck ==
    [][\A w \in Workers :
          Checks(w) =>
             LET k == FirstFailing(req[w], now)
             IN  IF k = 0 THEN pc'[w] \in {"in_session", "out_save"}
                 ELSE /\ pc'[w] = "done"
                      /\ resp'[w].kind = IF k = Len(CheckKinds)
                                         THEN StateRuleKind(req[w])
                                         ELSE CheckKinds[k]]_vars

\* a proxy IN of a clocked-in employee, witnessed by herself with a wrong
\* witness PIN: fails the checks 9, 10 and 11, answered with the error of 9
C7_Witness ==
    \E w \in Workers :
        /\ pc[w] = "done"
        /\ resp[w].kind = "WrongWitnessSecret"
        /\ {9, 10, 11} \subseteq FailedChecks(req[w], now)

\* C8: the photo is recompressed only for a punch that passes all the
\* checks, the session state rule included: no request answered with an
\* error kind has had its photo processed.
C8_RecompressOnlyWhenAccepted ==
    \A w \in Workers :
        (pc[w] = "done" /\ resp[w].kind \in RejectKinds) => ~ resp[w].photo_processed

\* C9: a proxy punch goes past the checks only with a witness id and PIN
\* supplied, the witness an active employee, the PIN hers, and the witness
\* not the subject; a proxy punch whose witness id is the subject id is
\* answered with an error and leaves sessions and events unchanged, whatever
\* the PINs; every event of a proxy punch names an active witness who is not
\* the subject.
C9_ProxyAccepted(r) ==
    /\ r.witness_employee_id # 0
    /\ r.witness_pin # ""
    /\ r.witness_employee_id \in ActiveIds
    /\ r.witness_pin = PinOf(r.witness_employee_id)
    /\ r.witness_employee_id # r.subject_employee_id

C9_ProxyStep ==
    \A w \in Workers :
        (Checks(w) /\ req[w].is_proxy) =>
            /\ pc'[w] # "done" => C9_ProxyAccepted(req[w])
            /\ req[w].witness_employee_id = req[w].subject_employee_id =>
                  /\ pc'[w] = "done"
                  /\ resp'[w].kind \in RejectKinds
                  /\ sessions' = sessions
                  /\ events' = events

C9_ProxyState ==
    /\ \A w \in Workers :
          (req[w].is_proxy /\ (pc[w] \in {"in_session", "in_event", "out_save", "out_event"}
                               \/ (pc[w] = "done" /\ resp[w].kind \in {"ok", "ServerError"})))
             => C9_ProxyAccepted(req[w])
    /\ \A k \in 1 .. Len(events) :
          IF events[k].is_proxy
          THEN /\ events[k].witness_employee \in ActiveIds
               /\ events[k].witness_employee # events[k].subject_employee
          ELSE events[k].witness_employee = 0

C9_ProxyNeedsWitness ==
    [] C9_ProxyState /\ [][C9_ProxyStep]_vars

\* after a witnessed punch was recorded, a proxy punch naming the subject as
\* their own witness, with the right PIN twice, is answered WitnessIsSubject
C9_Witness ==
    \E w \in Workers :
        /\ pc[w] = "done"
        /\ resp[w].kind = "WitnessIsSubject"
        /\ req[w].witness_pin = PinOf(req[w].witness_employee_id)
        /\ Len(events) = 1
        /\ events[1].is_proxy

\* C10: a token issued at any instant of any window is accepted by
\* validate_qr_token with max_age = 70 at the instant of issue and
\* max_age - 1 seconds later, and is not accepted max_age + 1 seconds later.
C10_TokenLifetime ==
    LET accepted == validate_qr_token(tok, MaxAgeSeconds, now)
        age == now - issuedAt
    IN  tok.sig =>
          /\ age = 0 => accepted
          /\ age = (MaxAgeSeconds - 1) * TicksPerSecond => accepted
          /\ age = (MaxAgeSeconds + 1) * TicksPerSecond => ~ accepted

\* a token issued half a second before the end of window 1 is looked at
\* max_age + 1 seconds later
C10_Witness ==
    /\ tok.sig
    /\ issuedAt = 2 * WindowSeconds * TicksPerSecond - 1
    /\ tok.window = 1
    /\ now - issuedAt = (MaxAgeSeconds + 1) * TicksPerSecond

\* C11: the token is a function of the window index: a token issued in the
\* window of the token issued before it is that same token, and a token
\* issued in another window is a different one.
C11_TokenOfWindow ==
    [][(tok.sig /\ tok'.sig) =>
          IF Sec(issuedAt') \div WindowSeconds = Sec(issuedAt) \div WindowSeconds
          THEN tok' = tok
          ELSE tok' # tok]_vars

\* C12: a token issued in window w is accepted by the punch handler (its
\* test token_expires_in > 0) no later than 10 seconds after the end of
\* window w.
C12_AcceptedUntilTenSecondsIntoNext ==
    (tok.sig /\ token_expires_in(tok, WindowSeconds, MaxAgeSeconds, now) > 0)
       => now <= ((tok.window + 1) * WindowSeconds + (MaxAgeSeconds - WindowSeconds))
                    * TicksPerSecond

\* the sessions of employee e that bear on the shifts of e of date d at instant
\* t: those clocked in on d, and those still open that were clocked in on or
\* before d, d not being after today
SessionsFor(e, d, t) ==
    {i \in SessionIds :
        /\ sessions[i].employee = e
        /\ sessions[i].clock_in_time # NULL
        /\ \/ localdate(sessions[i].clock_in_time) = d
           \/ /\ sessions[i].is_open
              /\ localdate(sessions[i].clock_in_time) <= d
              /\ d <= localdate(t)}

\* some session of S overlaps the shift: clock_in <= shift_end and
\* (clock_out, or t if still open) >= shift_start
Overlapped(sh, S, t) ==
    \E i \in S :
        /\ sessions[i].clock_in_time <= dt_combine(sh.date, sh.end_time)
        /\ (IF sessions[i].is_open THEN t ELSE sessions[i].clock_out_time)
              >= dt_combine(sh.date, sh.start_time)

\* the clock-ins of S inside [shift_start - 60 min, shift_start + 120 min]
ClockInsInWindow(sh, S) ==
    {sessions[i].clock_in_time : i \in
        {j \in S : /\ sessions[j].clock_in_time
                        >= dt_combine(sh.date, sh.start_time) - EARLY_WINDOW_MINUTES * MinuteTicks
                   /\ sessions[j].clock_in_time
                        <= dt_combine(sh.date, sh.start_time) + NO_SHOW_MINUTES * MinuteTicks}}

\* max(0, floor((m - shift_start) / 60 s)): the whole minutes from the start
\* of the shift to m, 0 if m is before it
MinutesLate(sh, m) ==
    LET d == m - dt_combine(sh.date, sh.start_time)
    IN  IF d < 0 THEN 0
        ELSE CHOOSE q \in 0 .. NO_SHOW_MINUTES :
                q * MinuteTicks <= d /\ d < (q + 1) * MinuteTicks

RowAsClaimed(r, S, t) ==
    LET ins == ClockInsInWindow(r.shift, S)
    IN  IF ~ Overlapped(r.shift, S, t) THEN r.row.status = "NO_SHOW"
        ELSE IF ins = {} THEN r.row.status = "COVERED"
        ELSE /\ r.row.in_time \in ins
             /\ r.row.minutes_late = MinutesLate(r.shift, r.row.in_time)
             /\ r.row.status = IF r.row.minutes_late <= GRACE_MINUTES
                               THEN "ON_TIME" ELSE "LATE"

\* C13: every shift the daily or the monthly pass classifies is classified
\* in this order: no session overlaps it -> NO_SHOW; covered and no clock-in
\* inside [shift_start - 60 min, shift_start + 120 min] -> COVERED, counted
\* as on-time; covered with a matched clock-in and minutes_late =
\* max(0, floor((matched_in - shift_start) / 60 s)) <= 15 -> ON_TIME;
\* otherwise LATE with that minutes_late.
C13_ClassificationOrder ==
    dash.ran =>
        /\ \A r \in dash.punctual_rows :
              RowAsClaimed(r, SessionsFor(r.shift.employee, r.shift.date, now), now)
        /\ \A r \in dash.month_rows :
              RowAsClaimed(r, SessionsFor(r.shift.employee, r.shift.date, now), now)
        /\ dash.on_time_shifts =
              Cardinality({r \in dash.punctual_rows : r.row.status \in {"COVERED", "ON_TIME"}})

\* a short session before the shift and a clock-in 16 minutes after its start
C13_Witness ==
    /\ dash.ran
    /\ Len(sessions) = 2
    /\ \E r \in dash.punctual_rows :
          r.row.status = "LATE" /\ r.row.minutes_late = GRACE_MINUTES + 1

\* the shift 09:00-17:00 of employee 1 today, and the row the daily pass
\* gives it
TheShift == ShiftRow(1, Today, 1, "APPROVED")
TheRow == (CHOOSE r \in dash.punctual_rows : r.shift = TheShift).row

\* employee 1's only session is clocked in at h:m today and covers the shift
OnlySessionIn(h, m) ==
    /\ dash.ran
    /\ shifts = {TheShift}
    /\ leaves = {}
    /\ Len(sessions) = 1
    /\ sessions[1].clock_in_time = dt_combine(Today, Clock(h, m))
    /\ Overlapped(TheShift, {1}, now)

\* C14 as claimed: for the shift 09:00-17:00 a covering session clocked in
\* at 09:10 is ON_TIME with minutes_late = 0, and one clocked in at 09:20 is
\* LATE with minutes_late = 20.
C14_AsClaimed ==
    /\ OnlySessionIn(9, 10) => (TheRow.status = "ON_TIME" /\ TheRow.minutes_late = 0)
    /\ OnlySessionIn(9, 20) => (TheRow.status = "LATE" /\ TheRow.minutes_late = 20)

\* C14 amended: a covering session clocked in at 09:10 is ON_TIME with
\* minutes_late = 10 (the clamp to 0 is for clock-ins before the start of
\* the shift: 08:00 gives ON_TIME with minutes_late = 0), and one clocked in
\* at 09:20 is LATE with minutes_late = 20.
C14_OnTimeAndLate ==
    /\ OnlySessionIn(9, 10) => (TheRow.status = "ON_TIME" /\ TheRow.minutes_late = 10)
    /\ OnlySessionIn(8, 0) => (TheRow.status = "ON_TIME" /\ TheRow.minutes_late = 0)
    /\ OnlySessionIn(9, 20) => (TheRow.status = "LATE" /\ TheRow.minutes_late = 20)

C14_Witness ==
    /\ OnlySessionIn(9, 10)
    /\ TheRow.status = "ON_TIME"
    /\ dash.on_time_shifts = 1

\* employee 1's only session runs from in_time to 18:00 today
OnlySessionSpans(in_time) ==
    /\ dash.ran
    /\ shifts = {TheShift}
    /\ leaves = {}
    /\ sessions = << SessRow(1, in_time, dt_combine(Today, Clock(18, 0))) >>

\* no session of employee 1 overlaps [09:00, 17:00] of today
NoSessionOverlaps ==
    /\ dash.ran
    /\ shifts = {TheShift}
    /\ leaves = {}
    /\ ~ Overlapped(TheShift, {i \in SessionIds : sessions[i].employee = 1}, now)

\* C15 as claimed: an employee whose only session spans 08:00-18:00 is
\* COVERED (not ON_TIME or LATE) and counted in the on-time count; one with
\* no session overlapping [09:00, 17:00] is NO_SHOW.
C15_AsClaimed ==
    /\ OnlySessionSpans(dt_combine(Today, Clock(8, 0))) =>
          (TheRow.status = "COVERED" /\ dash.on_time_shifts = 1)
    /\ NoSessionOverlaps => TheRow.status = "NO_SHOW"

\* C15 amended: an employee whose only session is clocked in before 08:00
\* and runs to 18:00 is COVERED and counted in the on-time count; a session
\* 08:00-18:00 has its clock-in inside the inclusive window [08:00, 11:00]
\* and is ON_TIME with minutes_late = 0, also counted on-time; an employee
\* with no session overlapping [09:00, 17:00] is NO_SHOW and not counted.
C15_CoveredAndNoShow ==
    /\ OnlySessionSpans(dt_combine(Today, Clock(8, 0)) - 1) =>
          /\ TheRow.status = "COVERED"
          /\ dash.covered_shifts = 1
          /\ dash.on_time_shifts = 1
    /\ OnlySessionSpans(dt_combine(Today, Clock(8, 0))) =>
          /\ TheRow.status = "ON_TIME"
          /\ TheRow.minutes_late = 0
          /\ dash.on_time_shifts = 1
    /\ NoSessionOverlaps =>
          /\ TheRow.status = "NO_SHOW"
          /\ dash.no_show_shifts = 1
          /\ dash.on_time_shifts = 0

C15_Witness ==
    /\ OnlySessionSpans(dt_combine(Today, Clock(8, 0)) - 1)
    /\ TheRow.status = "COVERED"

\* an APPROVED leave of employee e whose inclusive range contains date d
ApprovedLeaveCovers(e, d) ==
    \E lv \in leaves :
        /\ lv.employee = e
        /\ lv.status = "APPROVED"
        /\ lv.date_from <= d
        /\ d <= lv.date_to

\* the shifts the daily and the monthly pass have classified and counted
DailyShifts == {r.shift : r \in dash.punctual_rows}
MonthlyShifts == {r.shift : r \in dash.month_rows}

\* C16: no shift of an employee with an APPROVED leave containing the date
\* of the shift is classified, or counted in the scheduled or the no-show
\* count, by the daily or the monthly pass; a SUBMITTED or REJECTED leave
\* excludes nothing: every other APPROVED shift of today, and of the month,
\* is classified and counted.
C16_LeaveExcludes ==
    dash.ran =>
        /\ \A sh \in shifts :
              LET today == localdate(now)
                  on_leave == ApprovedLeaveCovers(sh.employee, sh.date)
                  in_month == MonthStart(today) <= sh.date /\ sh.date < NextMonth(today)
              IN  /\ on_leave => (sh \notin DailyShifts /\ sh \notin MonthlyShifts)
                  /\ (~ on_leave /\ sh.status = "APPROVED" /\ sh.date = today)
                        => sh \in DailyShifts
                  /\ (~ on_leave /\ sh.status = "APPROVED" /\ in_month)
                        => sh \in MonthlyShifts
        /\ dash.scheduled_shifts = Cardinality(DailyShifts)
        /\ dash.no_show_shifts <= dash.scheduled_shifts
        /\ dash.monthly_scheduled = Cardinality(MonthlyShifts)
        /\ dash.m_noshow <= dash.monthly_scheduled

\* employee 1 is on approved leave from the start of the month to tomorrow
\* and has approved shifts today and last week; employee 2 has one today
C16_Witness ==
    /\ dash.ran
    /\ leaves = {LeaveRow(1, 0, Today + 1, "APPROVED")}
    /\ shifts = {ShiftRow(1, Today, 1, "APPROVED"),
                 ShiftRow(1, Today - DaysInWeek, 1, "APPROVED"),
                 ShiftRow(2, Today, 3, "APPROVED")}
    /\ dash.scheduled_shifts = 1
    /\ dash.monthly_scheduled = 1

\* C17: only APPROVED rows are classified and counted by the daily and the
\* monthly pass; every DRAFT and every SUBMITTED row of the current week is
\* left out of them and counted in the pending-approval count of its division.
C17_OnlyApprovedCounted ==
    dash.ran =>
        /\ \A sh \in DailyShifts \cup MonthlyShifts : sh.status = "APPROVED"
        /\ \A dv \in Divisions :
              dash.pending_rosters[dv] =
                 Cardinality({sh \in shifts :
                                 /\ sh.division = dv
                                 /\ sh.status \in {"DRAFT", "SUBMITTED"}
                                 /\ WeekStart(localdate(now)) <= sh.date
                                 /\ sh.date < WeekStart(localdate(now)) + DaysInWeek})

\* a rate, in tenths of a percent, is count / scheduled * 100 rounded to one
\* decimal: no tenth is nearer
RoundedRate(rate, count, scheduled) ==
    /\ 2 * (rate * scheduled - 1000 * count) <= scheduled
    /\ 2 * (1000 * count - rate * scheduled) <= scheduled

\* C18: when the scheduled count of the day, or of the month, is 0, its
\* attendance, on-time and late rates are 0.0 and the pass completes;
\* otherwise each rate is count / scheduled * 100 rounded to one decimal.
C18_Rates ==
    dash.ran =>
        /\ IF dash.scheduled_shifts = 0
           THEN /\ dash.attendance_rate = 0
                /\ dash.on_time_rate = 0
                /\ dash.late_rate = 0
           ELSE /\ RoundedRate(dash.attendance_rate, dash.attended_shifts, dash.scheduled_shifts)
                /\ RoundedRate(dash.on_time_rate, dash.on_time_shifts, dash.scheduled_shifts)
                /\ RoundedRate(dash.late_rate, dash.late_shifts, dash.scheduled_shifts)
        /\ IF dash.monthly_scheduled = 0
           THEN /\ dash.monthly_att_rate = 0
                /\ dash.monthly_ontime_rate = 0
                /\ dash.monthly_late_rate = 0
           ELSE /\ RoundedRate(dash.monthly_att_rate, dash.m_attended, dash.monthly_scheduled)
                /\ RoundedRate(dash.monthly_ontime_rate, dash.m_ontime, dash.monthly_scheduled)
                /\ RoundedRate(dash.monthly_late_rate, dash.m_late, dash.monthly_scheduled)

\* the approved shifts of today are all excluded by leave, so that the day
\* has nothing scheduled, while the month has a shift attended
C18_Witness ==
    /\ dash.ran
    /\ leaves = {LeaveRow(1, Today, Today, "APPROVED")}
    /\ ShiftRow(1, Today, 1, "APPROVED") \in shifts
    /\ dash.scheduled_shifts = 0
    /\ dash.attendance_rate = 0
    /\ dash.monthly_scheduled = 1
    /\ dash.monthly_att_rate = 1000

\* the step handles an approve_roster_week request
ApproveStep ==
    served' = served + 1 /\ op'.name = "approve_roster_week"

\* a row the request op' is about: of its division, dated within the 7
\* days from its week_start, DRAFT or SUBMITTED
ToApprove(sh) ==
    /\ sh.division = op'.division
    /\ op'.week_start <= sh.date
    /\ sh.date < op'.week_start + DaysInWeek
    /\ sh.status \in {"DRAFT", "SUBMITTED"}

\* C19: approveWeek(division, weekStart) sets every DRAFT or SUBMITTED row
\* of the division dated within the 7 days from weekStart to APPROVED with
\* approved_by the acting manager and nothing else of it, leaves every other
\* row (another division, outside the 7 days, already APPROVED) as it is,
\* and adds or removes no row.
C19_ApproveWeek ==
    [][ApproveStep =>
          /\ \A sh \in shifts :
                IF ToApprove(sh)
                THEN [sh EXCEPT !.status = "APPROVED", !.approved_by = op'.user] \in shifts'
                ELSE sh \in shifts'
          /\ Cardinality(shifts') = Cardinality(shifts)
          /\ is_staff(op'.user)]_vars

\* the manager has approved the second week of division 1: its DRAFT and
\* its SUBMITTED row are APPROVED, the SUBMITTED row of division 2 and the
\* row of the first week are as they were
C19_Witness ==
    /\ op = [name |-> "approve_roster_week", user |-> "manager", division |-> 1,
             week_start |-> DaysInWeek, sel |-> << >>, again |-> FALSE]
    /\ served = 1
    /\ shifts = { [ShiftRow(1, DaysInWeek + 1, 1, "DRAFT")
                      EXCEPT !.status = "APPROVED", !.approved_by = "manager"],
                  [ShiftRow(1, DaysInWeek + 2, 1, "SUBMITTED")
                      EXCEPT !.status = "APPROVED", !.approved_by = "manager"],
                  ShiftRow(1, 1, 1, "APPROVED"),
                  ShiftRow(2, DaysInWeek + 1, 3, "SUBMITTED") }

\* C20: once a ShiftAssignment is APPROVED it stays: no roster_week,
\* approve_roster_week or template edit, by the manager or by the editor,
\* removes it, changes its employee, date or times, or returns it to DRAFT
\* or SUBMITTED.
C20_ApprovedIsImmutable ==
    [][\A sh \in shifts :
          sh.status = "APPROVED" =>
              \E x \in shifts' :
                  /\ x.employee = sh.employee
                  /\ x.date = sh.date
                  /\ x.start_time = sh.start_time
                  /\ x.end_time = sh.end_time
                  /\ x.status = "APPROVED"]_vars

\* the rows as the claim compares them
RowsAsCompared(table) ==
    {[employee |-> x.employee, division |-> x.division, date |-> x.date,
      start_time |-> x.start_time, end_time |-> x.end_time, status |-> x.status] :
        x \in table}

\* C21: a roster_week request that repeats the request handled just before
\* it (same user, division, week and selection) leaves the set of
\* ShiftAssignment rows (employee, division, date, start_time, end_time,
\* status) as the first one left it.
C21_ReplaceIdempotent ==
    [][(served' = served + 1 /\ op'.name = "roster_week" /\ op'.again)
          => RowsAsCompared(shifts') = RowsAsCompared(shifts)]_vars

\* the editor has posted twice a selection that names template 1 twice for
\* one day and once for the next: each time the second create of the first
\* cell broke unique_together and the request ended there
C21_Witness ==
    /\ op.name = "roster_week"
    /\ op.again
    /\ op.user = "editor"
    /\ op.sel[<<1, op.week_start + 1>>] = <<1, 1>>
    /\ op.sel[<<1, op.week_start + 2>>] = <<1>>
    /\ \E x \in shifts : x.date = op.week_start + 1 /\ x.status = "SUBMITTED"

\* the action that is not a
OtherAction(a) == IF a = "IN" THEN "OUT" ELSE "IN"

\* C22: the status view answers IN / next OUT exactly when the employee has
\* an open session and OUT / next IN otherwise, the next action is the one
\* the state rule of the punch handler lets pass and the other one is the
\* one it rejects; a missing or inactive employee gets 404.
C22_StatusMatchesStateMachine ==
    \A id \in EmployeeIds \cup {MissingId} :
        \A a \in {api_employee_status(id)} :
            IF id \notin ActiveIds
            THEN a.status = 404 /\ a.error = "Invalid employee"
            ELSE /\ a.status = 200
                 /\ a.current_state = (IF OpenCount(id) > 0 THEN "IN" ELSE "OUT")
                 /\ a.next_action = OtherAction(a.current_state)
                 /\ \A o \in {OpenSessionOf(id)} :
                       /\ StateRule([action |-> a.next_action], o) = "pass"
                       /\ StateRule([action |-> a.current_state], o) # "pass"

\* employee 1 is clocked in and employee 2 has clocked in and out again
C22_Witness ==
    /\ api_employee_status(1).current_state = "IN"
    /\ api_employee_status(1).since # NULL
    /\ api_employee_status(2).current_state = "OUT"
    /\ api_employee_status(2).since # NULL
    /\ api_employee_status(MissingId).status = 404

\* the OUT events attached to session i
OutEventsOf(i) ==
    {k \in 1 .. Len(events) : events[k].event_type = "OUT" /\ events[k].session = i}

\* C23: of the OUT punches of one employee with one open session only one
\* is accepted, the others being answered NoOpenSession, so that no session
\* ever carries more than one OUT event.
C23_OneOutPerSession ==
    \A i \in SessionIds : Cardinality(OutEventsOf(i)) <= 1

\* the match the claim describes: the earliest clock-in of the employee's
\* sessions inside the window, absent (NULL) when there is none, and, for a
\* row with a match, minutes_late no larger than that of any clock-in inside
\* the window
MatchAsClaimed(r, S) ==
    LET ins == ClockInsInWindow(r.shift, S)
    IN  IF ins = {} THEN r.row.in_time = NULL
        ELSE /\ r.row.in_time \in ins
             /\ \A x \in ins : r.row.in_time <= x
             /\ r.row.status \in {"ON_TIME", "LATE"} =>
                   /\ \E x \in ins : r.row.minutes_late = MinutesLate(r.shift, x)
                   /\ \A x \in ins : r.row.minutes_late <= MinutesLate(r.shift, x)

\* C24: for every shift of the daily and of the monthly pass the punctuality
\* match is the clock-in of the chronologically first session of the
\* employee whose clock-in lies in [shift_start - 60 min, shift_start + 120
\* min], ends included, and is absent when there is none; the minutes_late
\* reported is the minimum over the sessions inside the window.
C24_FirstInWindow ==
    dash.ran =>
        /\ \A r \in dash.punctual_rows :
              MatchAsClaimed(r, SessionsFor(r.shift.employee, r.shift.date, now))
        /\ \A r \in dash.month_rows :
              MatchAsClaimed(r, SessionsFor(r.shift.employee, r.shift.date, now))

\* two sessions of the employee clock in inside the window of the shift,
\* minutes apart from its start, and the earlier one is the match
C24_Witness ==
    /\ dash.ran
    /\ \E r \in dash.punctual_rows :
          LET ins == ClockInsInWindow(r.shift, SessionsFor(r.shift.employee, r.shift.date, now))
          IN  /\ Cardinality(ins) = 2
              /\ r.row.status = "ON_TIME"
              /\ \E x \in ins : x # r.row.in_time /\ MinutesLate(r.shift, x) > r.row.minutes_late

\* a punch of employee 1 that is in order but for the token it carries
PunchWith(token) ==
    [action |-> "IN", qr_token |-> token, photo |-> "small",
     subject_employee_id |-> 1, subject_pin |-> PinOf(1), is_proxy |-> FALSE,
     witness_employee_id |-> 0, witness_pin |-> ""]

\* C25: at every instant at which validate_qr_token with max_age = 70
\* accepts the token, token_expires_in(token, 60, 70) is positive: the check
\* view answers valid = true and the punch handler does not answer
\* TokenExpired.
C25_ValidatedIsNotExpired ==
    validate_qr_token(tok, MaxAgeSeconds, now) =>
        /\ token_expires_in(tok, WindowSeconds, MaxAgeSeconds, now) > 0
        /\ api_qr_check(tok, now).valid
        /\ InputChecks(PunchWith(tok), now) # "TokenExpired"

\* the sum of f over the employees of S
RECURSIVE SumOver(_, _)
SumOver(f, S) ==
    IF S = {} THEN 0
    ELSE LET e == CHOOSE x \in S : TRUE IN f[e] + SumOver(f, S \ {e})

\* the counter named by field of every employee with monthly statistics
StatOf(field) == [e \in DOMAIN dash.per_emp |-> dash.per_emp[e][field]]

\* C26: the counters of a dashboard partition the shifts: attended + no_show
\* = scheduled, on_time + late = attended and covered_only <= on_time, for
\* the day and for the month, and the per-employee scheduled, attended, late
\* and no-show counts add up to the monthly totals.
C26_CountersPartition ==
    dash.ran =>
        /\ dash.attended_shifts + dash.no_show_shifts = dash.scheduled_shifts
        /\ dash.on_time_shifts + dash.late_shifts = dash.attended_shifts
        /\ dash.covered_shifts <= dash.on_time_shifts
        /\ dash.m_attended + dash.m_noshow = dash.monthly_scheduled
        /\ dash.m_ontime + dash.m_late = dash.m_attended
        /\ SumOver(StatOf("scheduled"), DOMAIN dash.per_emp) = dash.monthly_scheduled
        /\ SumOver(StatOf("attended"), DOMAIN dash.per_emp) = dash.m_attended
        /\ SumOver(StatOf("late"), DOMAIN dash.per_emp) = dash.m_late
        /\ SumOver(StatOf("noshow"), DOMAIN dash.per_emp) = dash.m_noshow

\* a day with a late and a missed shift of two employees, in a month with a
\* third shift, late as well, a week earlier
C26_Witness ==
    /\ dash.ran
    /\ dash.scheduled_shifts = 2
    /\ dash.late_shifts = 1
    /\ dash.no_show_shifts = 1
    /\ dash.monthly_scheduled = 3
    /\ dash.m_late = 2
    /\ DOMAIN dash.per_emp = {1, 2}
    /\ dash.per_emp[1].late = 1
    /\ dash.per_emp[1].noshow = 1
    /\ dash.per_emp[2].late = 1

\* clock_in_time set, is_open exactly when clock_out_time is unset, and a
\* closed session has clock_out_time >= clock_in_time
WellFormed(s) ==
    /\ s.clock_in_time # NULL
    /\ s.is_open <=> s.clock_out_time = NULL
    /\ ~ s.is_open => s.clock_out_time >= s.clock_in_time

\* C27: every session the punches produce is well formed (clock_in_time
\* set, is_open iff clock_out_time unset, clock_out_time >= clock_in_time
\* once closed), and no later punch reopens or modifies a closed session.
C27_SessionsWellFormed ==
    /\ [](\A i \in SessionIds : WellFormed(sessions[i]))
    /\ [][\A i \in SessionIds :
             ~ sessions[i].is_open => sessions'[i] = sessions[i]]_vars

\* the rows the daily and the monthly pass hold for shift sh
DailyRowsOf(sh) == {r.row : r \in {x \in dash.punctual_rows : x.shift = sh}}
MonthlyRowsOf(sh) == {r.row : r \in {x \in dash.month_rows : x.shift = sh}}

MatchedSessions(r, S) == {i \in S : sessions[i].clock_in_time = r.row.in_time}

\* session i overlaps the interval of shift sh at instant t
OverlapsShift(i, sh, t) ==
    session_overlaps_shift(sessions[i], dt_combine(sh.date, sh.start_time),
                           dt_combine(sh.date, sh.end_time), t)

\* the claim as stated: the session that gave the match of an ON_TIME or
\* LATE shift overlaps the shift itself
MatchedOverlaps(r, S, t) ==
    r.row.status \in {"ON_TIME", "LATE"} =>
        \E i \in MatchedSessions(r, S) : OverlapsShift(i, r.shift, t)

\* C29 as stated, for every shift of the daily and of the monthly pass
C29_AsClaimed ==
    dash.ran =>
        /\ \A r \in dash.punctual_rows :
              MatchedOverlaps(r, SessionsFor(r.shift.employee, r.shift.date, now), now)
        /\ \A r \in dash.month_rows :
              MatchedOverlaps(r, SessionsFor(r.shift.employee, r.shift.date, now), now)

\* the match and the coverage of an ON_TIME or LATE shift, each from some
\* session of the employee, and from the same one when there is only one
MatchAndCoverage(r, S, t) ==
    r.row.status \in {"ON_TIME", "LATE"} =>
        /\ \E i \in S : OverlapsShift(i, r.shift, t)
        /\ MatchedSessions(r, S) # {}
        /\ r.row.in_time \in ClockInsInWindow(r.shift, S)
        /\ Cardinality(S) = 1 =>
              \A i \in S : i \in MatchedSessions(r, S) /\ OverlapsShift(i, r.shift, t)

\* C29: whenever a shift is ON_TIME or LATE, some session of the employee
\* overlaps [shift_start, shift_end] and the match is the clock-in of a
\* session of the employee inside the punctuality window; the two are the
\* same session when the employee has a single session that day, and need
\* not be otherwise.
C29_MatchAndCoverage ==
    dash.ran =>
        /\ \A r \in dash.punctual_rows :
              MatchAndCoverage(r, SessionsFor(r.shift.employee, r.shift.date, now), now)
        /\ \A r \in dash.month_rows :
              MatchAndCoverage(r, SessionsFor(r.shift.employee, r.shift.date, now), now)

\* a session from 08:00 to 08:30 gives the match of the shift of 09:00 and a
\* second session, clocked in after the window, covers it: ON_TIME
C29_Witness ==
    /\ dash.ran
    /\ shifts = {TheShift}
    /\ Len(sessions) = 2
    /\ sessions[1] = SessRow(1, dt_combine(Today, Clock(8, 0)), dt_combine(Today, Clock(8, 30)))
    /\ sessions[2].clock_in_time = dt_combine(Today, Clock(11, 0)) + 1
    /\ TheRow.status = "ON_TIME"
    /\ TheRow.in_time = dt_combine(Today, Clock(8, 0))
    /\ ~ OverlapsShift(1, TheShift, now)
    /\ OverlapsShift(2, TheShift, now)

====
